---- MODULE Spec2Model ----
(***************************************************************************)
(* INOVAFINANCE voice output pipeline and its serverless TTS endpoints.    *)
(*                                                                         *)
(* The browser side runs as async tasks on one event loop; one action is   *)
(* one run of a task from the resumption of an await to its next await.    *)
(*                                                                         *)
(* Spec      - every entry point (ttsService.speak, speakWithElevenLabs,   *)
(*             isaSpeak, playCachedPhrase, preloadCommonPhrases), one call *)
(*             after the other.                                            *)
(* SpecRace  - concurrent calls of ttsService.speak.                       *)
(* SpecStore - concurrent calls of playCachedPhrase and                    *)
(*             preloadCommonPhrases next to a call of ttsService.speak.    *)
(* SpecIsa   - concurrent calls of speakWithElevenLabs and isaSpeak.       *)
(* SpecKeys  - the key-rotating ElevenLabs edge function.                  *)
(*                                                                         *)
(* Text is a sequence of one-character tokens.  "a'" stands for the        *)
(* precomposed letter a-acute, "~1" for the combining acute accent that    *)
(* NFD splits off it, "\n" for a line feed and "EMOJI" for a code point of *)
(* the emoji ranges.                                                       *)
(***************************************************************************)
EXTENDS Integers, Sequences, FiniteSets, TLC

\* ------------------------------------------------------------------ text

RECURSIVE Flatten(_)
Flatten(ss) == IF ss = <<>> THEN <<>> ELSE Head(ss) \o Flatten(Tail(ss))

IsSpace(c) == c \in {" ", "\n"}

RECURSIVE TrimStart(_)
TrimStart(s) ==
    IF s # <<>> /\ IsSpace(Head(s)) THEN TrimStart(Tail(s)) ELSE s

RECURSIVE TrimEnd(_)
TrimEnd(s) ==
    IF s # <<>> /\ IsSpace(s[Len(s)]) THEN TrimEnd(SubSeq(s, 1, Len(s) - 1)) ELSE s

\* String.prototype.trim
Trim(s) == TrimEnd(TrimStart(s))

\* String.prototype.toLowerCase, on the letters the model's texts use
LowerChar(c) ==
    CASE c = "B" -> "b" [] c = "O" -> "o" [] c = "M" -> "m" [] c = "D" -> "d"
      [] c = "I" -> "i" [] c = "A" -> "a" [] c = "P" -> "p" [] c = "R" -> "r"
      [] c = "L" -> "l" [] c = "A'" -> "a'"
      [] OTHER -> c

ToLowerCase(s) == [i \in 1..Len(s) |-> LowerChar(s[i])]

\* String.prototype.normalize('NFD'): a precomposed letter becomes its base
\* letter followed by a combining mark of U+0300..U+036F
NfdChar(c) ==
    CASE c = "a'" -> <<"a", "~1">>
      [] c = "A'" -> <<"A", "~1">>
      [] OTHER -> <<c>>

Nfd(s) == Flatten([i \in 1..Len(s) |-> NfdChar(s[i])])

IsCombiningMark(c) == c \in {"~1"}

\* the class \w of a JavaScript regular expression: [A-Za-z0-9_]
IsWordChar(c) ==
    c \in {"a", "b", "c", "d", "e", "i", "l", "m", "n", "o", "p", "r", "s",
           "A", "B", "D", "I", "L", "M", "O", "P", "R",
           "0", "1", "5", "_"}

\* ttsService.normalizeTextForCache: lower-case, trim, strip accents, drop
\* everything that is neither \w nor \s (in that order: the trim comes first)
normalizeTextForCache(text) ==
    LET lowered  == Trim(ToLowerCase(text))
        unmarked == SelectSeq(Nfd(lowered), LAMBDA c : ~IsCombiningMark(c))
    IN  SelectSeq(unmarked, LAMBDA c : IsWordChar(c) \/ IsSpace(c))

\* cachedAudioService.COMMON_PHRASES (two of its entries)
PhraseKeys == {"bom_dia", "processando"}

COMMON_PHRASES ==
    [k \in PhraseKeys |->
        IF k = "bom_dia"
        THEN <<"B", "o", "m", " ", "d", "i", "a", "!">>
        ELSE <<"P", "r", "o", "c", "e", "s", "s", "a", "n", "d", "o", ".">>]

NoKey == "null"

\* ttsService.findCachedPhraseKey: the key of the catalog phrase whose
\* normalized text equals the normalized input, or null
findCachedPhraseKey(text) ==
    LET hits == {k \in PhraseKeys :
                    normalizeTextForCache(text) = normalizeTextForCache(COMMON_PHRASES[k])}
    IN  IF hits = {} THEN NoKey ELSE CHOOSE k \in hits : TRUE

\* ttsService.speak: const cacheKey = text.trim().toLowerCase()
cacheKeyOf(text) == ToLowerCase(Trim(text))

\* The texts the callers pass: "Bom dia" (the catalog phrase without its
\* exclamation mark), " BOM DIA'!" (upper case, an accent, padding), "Ola'"
\* (a dynamic sentence that is no catalog phrase), a blank text, and an emoji
\* between bold markers (a text of which cleaning leaves nothing).
Utterances ==
    << <<"B", "o", "m", " ", "d", "i", "a">>,
       <<" ", "B", "O", "M", " ", "D", "I", "A'", "!">>,
       <<"O", "l", "a'">>,
       <<" ">>,
       <<"*", "*", "EMOJI", "*", "*">> >>

UtteranceIds == 1..Len(Utterances)

\* ------------------------------------------------------- browser state

MaxCalls == 2

CallIds == 1..MaxCalls

NoCall == 0

\* what a fetch of one of the edge functions can come back with: 200 with an
\* audio body, 204 No Content, a 4xx/5xx status, or a rejected fetch
Responses == {"audio", "noContent", "httpError", "netError"}

VARIABLES
    call,            \* the async tasks: one record per running call
    currentAudio,    \* audioManager: the call whose Audio element is the active one
    utterance,       \* window.speechSynthesis: the call whose utterance is spoken
    audioCache,      \* ttsService.audioCache: the cache keys that map to a URL
    store,           \* IndexedDB 'audio-phrases': phrase key -> blob kind
    voiceEnabled,    \* localStorage 'isa_voice_enabled'
    speechSupported, \* whether window.speechSynthesis exists
    currentKeyIndex, \* edge function: the rotation cursor
    poolSize,        \* edge function: API_KEYS.length
    req,             \* edge function: the requests being served
    hook,            \* useIsaGreeting: one record per mounted hook instance
    tabGreeted,      \* voiceQueueService: the tabs greeted in this session
    dayGreeted,      \* voiceQueueService: whether today's greeting was spoken
    spokenCount,     \* how often each greeting has been handed to isaSpeak
    arg,             \* the input a text function is applied to
    res,             \* what the function has returned for it
    timer,           \* useIsaGreeting: the hook instances whose 1.5 s timer is armed
    gtfs,            \* gtfsService: cachedData, loadingPromise and the callers
    sptrans,         \* SPTrans handler: the invocations being served
    rotina,          \* RotinaInteligente: the clock, lastAlertTime and the closures
    links,           \* AdminAffiliateLinkGenerator: the stored affiliate links
    modal,           \* AdminAffiliateLinkGenerator: the create / edit dialog
    gemReq           \* gemini-tts handlers: the request being served

clientVars == <<call, currentAudio, utterance, audioCache, store, voiceEnabled,
                speechSupported>>

serverVars == <<currentKeyIndex, poolSize, req>>

greetVars == <<hook, tabGreeted, dayGreeted, spokenCount, timer>>

pureVars == <<arg, res>>

appVars == <<gtfs, sptrans, rotina, links, modal, gemReq>>

vars == <<call, currentAudio, utterance, audioCache, store, voiceEnabled,
          speechSupported, currentKeyIndex, poolSize, req, hook, tabGreeted,
          dayGreeted, spokenCount, arg, res, timer, gtfs, sptrans, rotina, links,
          modal, gemReq>>

\* A call slot that runs nothing.  The fields after `result` record what the
\* call has done so far; the code does not read them.
Idle ==
    [op |-> "idle", pc |-> "idle", text |-> 0, key |-> NoKey, idx |-> 0,
     premium |-> FALSE, handle |-> "none", result |-> "none",
     elResp |-> "none", elPlay |-> "none", gemResp |-> "none", gemPlay |-> "none",
     natInv |-> FALSE, isaNat |-> FALSE, pcpRes |-> "none", stale |-> FALSE,
     cachedAtStart |-> FALSE, net |-> FALSE, presentAtIssue |-> FALSE]

textOf(r) == Utterances[r.text]

\* audioManager.playAudioExclusively: how the playback of call c's element can
\* settle.  An element that another call has replaced or stopped is released
\* ("stopped", the promise resolves); an element over an empty blob cannot
\* play and errors.
PlayOutcomes(c) ==
    IF currentAudio # c THEN {"stopped"}
    ELSE IF call[c].handle = "empty" THEN {"error"}
    ELSE {"ended", "error"}

Outcomes == {"ended", "error", "stopped"}

\* the active element after call c's playback has settled
Released(c) == IF currentAudio = c THEN NoCall ELSE currentAudio

\* audioManager.stopAllAudio: whatever output is in flight is halted
StopAllAudio ==
    /\ currentAudio' = NoCall
    /\ utterance' = NoCall

\* audioManager.playAudioExclusively(audio), its synchronous part: stopAllAudio,
\* then call c's element is the active one
PlayAudioExclusively(c) ==
    /\ currentAudio' = c
    /\ utterance' = NoCall

\* nothing is started or stopped; cur is the active element as this step has
\* left it (the playback the step resumed from may just have been released)
Quiet(cur) ==
    /\ currentAudio' = cur
    /\ UNCHANGED utterance

\* speechSynthesis.cancel() and speechSynthesis.speak(utterance) by call c: the
\* Audio element of the audio manager is not touched
SpeakUtterance(c, cur) ==
    /\ currentAudio' = cur
    /\ utterance' = c

\* a speak call that begins while another speak call waits for its synthesis
\* fetch: the waiting call is marked as raced
MarkRaced(c) ==
    [d \in CallIds |->
        IF d # c /\ call[d].op = "speak" /\ call[d].pc \in {"sp_el_fetch", "sp_gem_fetch"}
        THEN [call[d] EXCEPT !.stale = TRUE]
        ELSE call[d]]

Settle(r, how) == [r EXCEPT !.pc = "done", !.result = how, !.handle = "none"]

\* ------------------------------------------- ttsService / cachedAudioService

\* cachedAudioService.generateAudio: null unless response.ok, else the body as
\* a blob (a 204 is ok and yields an empty blob)
generateAudio(resp) ==
    CASE resp = "audio"     -> "audio"
      [] resp = "noContent" -> "empty"
      [] OTHER              -> "none"

\* ttsService.tryElevenLabsTTS / tryGeminiTTS: an Audio element when the
\* response is ok and its Content-Type names audio, else null
tryNetworkTTS(resp) == IF resp = "audio" THEN "audio" ELSE "none"

\* ttsService.speak from "Check memory cache" on (lines 142-155), run by call c
\* whose record so far is r; base holds the calls as this step has left them,
\* and stopped tells whether the step has called stopAllAudio
SpeakFromMemoryCache(c, r, base, stopped, cur) ==
    IF cacheKeyOf(textOf(r)) \in audioCache
    THEN /\ call' = [base EXCEPT ![c] = [r EXCEPT !.pc = "sp_mem_play", !.handle = "audio"]]
         /\ PlayAudioExclusively(c)
    ELSE /\ call' = [base EXCEPT ![c] =
                        [r EXCEPT !.pc = "sp_el_fetch", !.elResp = "pending", !.net = TRUE]]
         /\ IF stopped THEN StopAllAudio ELSE Quiet(cur)

\* a speak that goes on to the providers whatever playCachedPhrase returned
PcpReturnIgnored(c, r, success, cur) ==
    LET r1 == [r EXCEPT !.pcpRes = IF success THEN "true" ELSE "false", !.handle = "none"]
    IN  IF r.op = "speak"
        THEN SpeakFromMemoryCache(c, r1, call, FALSE, cur)
        ELSE /\ call' = [call EXCEPT ![c] = Settle(r1, "resolved")]
             /\ Quiet(cur)

\* playCachedPhrase has returned `success` to call c (record r): a standalone
\* call settles with it; speak returns on true and goes on to the memory cache
\* on false (ttsService.speak lines 138-140)
PcpReturn(c, r, success, cur) ==
    LET r1 == [r EXCEPT !.pcpRes = IF success THEN "true" ELSE "false", !.handle = "none"]
    IN  IF r.op = "speak" /\ ~success
        THEN SpeakFromMemoryCache(c, r1, call, FALSE, cur)
        ELSE /\ call' = [call EXCEPT ![c] = Settle(r1, "resolved")]
             /\ Quiet(cur)

\* speak(text) up to its first await
SpeakStart(c, t) ==
    /\ call[c].op = "idle"
    /\ LET text == Utterances[t]
           r0   == [Idle EXCEPT !.op = "speak", !.text = t, !.result = "pending",
                                !.cachedAtStart = cacheKeyOf(text) \in audioCache]
           key  == findCachedPhraseKey(text)
       IN  IF Trim(text) = <<>>
           THEN /\ call' = [call EXCEPT ![c] = Settle(r0, "resolved")]
                /\ UNCHANGED <<currentAudio, utterance>>
           ELSE IF key # NoKey
           THEN /\ call' = [MarkRaced(c) EXCEPT ![c] = [r0 EXCEPT !.pc = "pcp_get", !.key = key]]
                /\ StopAllAudio
           ELSE SpeakFromMemoryCache(c, r0, MarkRaced(c), TRUE, NoCall)
    /\ UNCHANGED <<audioCache, store, voiceEnabled, speechSupported, serverVars, greetVars, pureVars, appVars>>

\* playCachedPhrase(phraseKey) called on its own, up to its first await
PcpStart(c, k) ==
    /\ call[c].op = "idle"
    /\ call' = [call EXCEPT ![c] =
                  [Idle EXCEPT !.op = "pcp", !.pc = "pcp_get", !.key = k, !.result = "pending"]]
    /\ UNCHANGED <<currentAudio, utterance, audioCache, store, voiceEnabled,
                   speechSupported, serverVars, greetVars, pureVars, appVars>>

\* a playCachedPhrase that synthesizes without looking at what the store holds
PcpAfterGetBlind(c) ==
    /\ call[c].pc = "pcp_get"
    /\ call' = [call EXCEPT ![c] =
                  [call[c] EXCEPT !.pc = "pcp_fetch", !.net = TRUE,
                                  !.presentAtIssue = store[call[c].key] # "none"]]
    /\ UNCHANGED <<currentAudio, utterance, audioCache, store, voiceEnabled,
                   speechSupported, serverVars, greetVars, pureVars, appVars>>

\* cachedAudioService.getCachedAudio(key): the audioBlob of the record stored
\* under the key, or null ("none") where there is no record
getCachedAudio(key) == store[key]

\* a setCachedAudio whose failure to open the database is logged and swallowed
setCachedAudioSwallowed(key, blob) == store

\* cachedAudioService.setCachedAudio(key, blob): the store after the put
setCachedAudio(key, blob) == [store EXCEPT ![key] = blob]

\* playCachedPhrase after `await getCachedAudio(phraseKey)`: the read of the
\* store and the code up to the next await.  (A write transaction opened after
\* the read's cannot start before the read's success callback and the
\* microtasks it queues have run, so nothing comes between the two.)
PcpAfterGet(c) ==
    /\ call[c].pc = "pcp_get"
    /\ LET r    == call[c]
           blob == getCachedAudio(r.key)
       IN  IF blob = "none"
           THEN /\ call' = [call EXCEPT ![c] =
                              [r EXCEPT !.pc = "pcp_fetch", !.net = TRUE,
                                        !.presentAtIssue = store[r.key] # "none"]]
                /\ UNCHANGED <<currentAudio, utterance>>
           ELSE /\ call' = [call EXCEPT ![c] = [r EXCEPT !.pc = "pcp_play", !.handle = blob]]
                /\ PlayAudioExclusively(c)
    /\ UNCHANGED <<audioCache, store, voiceEnabled, speechSupported, serverVars, greetVars, pureVars, appVars>>

\* playCachedPhrase after `await generateAudio(text)`
PcpAfterGenerate(c, resp) ==
    /\ call[c].pc = "pcp_fetch"
    /\ LET r    == call[c]
           blob == generateAudio(resp)
       IN  IF blob # "none"
           THEN /\ call' = [call EXCEPT ![c] = [r EXCEPT !.pc = "pcp_set", !.handle = blob]]
                /\ UNCHANGED <<currentAudio, utterance>>
           ELSE PcpReturn(c, r, FALSE, currentAudio)
    /\ UNCHANGED <<audioCache, store, voiceEnabled, speechSupported, serverVars, greetVars, pureVars, appVars>>

\* playCachedPhrase after `await setCachedAudio(phraseKey, audioBlob)`: the blob
\* is in the store and its playback starts
PcpAfterSet(c) ==
    /\ call[c].pc = "pcp_set"
    /\ store' = setCachedAudio(call[c].key, call[c].handle)
    /\ call' = [call EXCEPT ![c].pc = "pcp_play"]
    /\ PlayAudioExclusively(c)
    /\ UNCHANGED <<audioCache, voiceEnabled, speechSupported, serverVars, greetVars, pureVars, appVars>>

\* playCachedPhrase after `await playAudioExclusively(audio)`: true, or false
\* from the catch when the playback rejected
PcpAfterPlay(c, outcome) ==
    /\ call[c].pc = "pcp_play"
    /\ outcome \in PlayOutcomes(c)
    /\ PcpReturn(c, call[c], outcome # "error", Released(c))
    /\ UNCHANGED <<audioCache, store, voiceEnabled, speechSupported, serverVars, greetVars, pureVars, appVars>>

\* speak after `await playAudioExclusively(audio)` of the memory-cached URL
\* (line 150, outside every try): a rejected playback rejects speak
SpeakAfterMemoryPlay(c, outcome) ==
    /\ call[c].pc = "sp_mem_play"
    /\ outcome \in PlayOutcomes(c)
    /\ call' = [call EXCEPT ![c] =
                  Settle(call[c], IF outcome = "error" THEN "rejected" ELSE "resolved")]
    /\ Quiet(Released(c))
    /\ UNCHANGED <<audioCache, store, voiceEnabled, speechSupported, serverVars, greetVars, pureVars, appVars>>

\* speak: "Fallback to Gemini TTS" (line 171), the fetch is issued
SpeakToGemini(r) == [r EXCEPT !.pc = "sp_gem_fetch", !.gemResp = "pending", !.handle = "none"]

\* speak after `await tryElevenLabsTTS(text)`
SpeakAfterElevenLabs(c, resp) ==
    /\ call[c].pc = "sp_el_fetch"
    /\ LET r == [call[c] EXCEPT !.elResp = resp]
       IN  IF tryNetworkTTS(resp) # "none"
           THEN /\ audioCache' = audioCache \cup {cacheKeyOf(textOf(r))}
                /\ call' = [call EXCEPT ![c] =
                              [r EXCEPT !.pc = "sp_el_play", !.handle = "audio",
                                        !.elPlay = "playing"]]
                /\ PlayAudioExclusively(c)
           ELSE /\ call' = [call EXCEPT ![c] = SpeakToGemini(r)]
                /\ UNCHANGED <<audioCache, currentAudio, utterance>>
    /\ UNCHANGED <<store, voiceEnabled, speechSupported, serverVars, greetVars, pureVars, appVars>>

\* speak after `await playAudioExclusively(elevenLabsAudio)`: returns, or the
\* catch logs the rejection and speak goes on to Gemini
SpeakAfterElevenLabsPlay(c, outcome) ==
    /\ call[c].pc = "sp_el_play"
    /\ outcome \in PlayOutcomes(c)
    /\ LET r == [call[c] EXCEPT !.elPlay = outcome]
       IN  call' = [call EXCEPT ![c] =
                      IF outcome = "error" THEN SpeakToGemini(r) ELSE Settle(r, "resolved")]
    /\ Quiet(Released(c))
    /\ UNCHANGED <<audioCache, store, voiceEnabled, speechSupported, serverVars, greetVars, pureVars, appVars>>

\* speak after `await tryGeminiTTS(text)`
SpeakAfterGemini(c, resp) ==
    /\ call[c].pc = "sp_gem_fetch"
    /\ LET r == [call[c] EXCEPT !.gemResp = resp]
       IN  IF tryNetworkTTS(resp) # "none"
           THEN /\ audioCache' = audioCache \cup {cacheKeyOf(textOf(r))}
                /\ call' = [call EXCEPT ![c] =
                              [r EXCEPT !.pc = "sp_gem_play", !.handle = "audio",
                                        !.gemPlay = "playing"]]
                /\ PlayAudioExclusively(c)
           ELSE /\ call' = [call EXCEPT ![c] = Settle(r, "resolved")]
                /\ UNCHANGED <<audioCache, currentAudio, utterance>>
    /\ UNCHANGED <<store, voiceEnabled, speechSupported, serverVars, greetVars, pureVars, appVars>>

\* speak after `await playAudioExclusively(geminiAudio)`: returns the element,
\* or null after the catch ("Both failed - log but don't use native TTS")
SpeakAfterGeminiPlay(c, outcome) ==
    /\ call[c].pc = "sp_gem_play"
    /\ outcome \in PlayOutcomes(c)
    /\ call' = [call EXCEPT ![c] = Settle([call[c] EXCEPT !.gemPlay = outcome], "resolved")]
    /\ Quiet(Released(c))
    /\ UNCHANGED <<audioCache, store, voiceEnabled, speechSupported, serverVars, greetVars, pureVars, appVars>>

\* ------------------------------------------- elevenlabsTtsService / isaVoiceService

IsEmoji(c) == c = "EMOJI"

\* String.prototype.replace(/\*\*/g, ''): every pair of asterisks, left to right
RECURSIVE StripBold(_)
StripBold(s) ==
    IF Len(s) < 2 THEN s
    ELSE IF s[1] = "*" /\ s[2] = "*" THEN StripBold(SubSeq(s, 3, Len(s)))
    ELSE <<Head(s)>> \o StripBold(Tail(s))

\* String.prototype.replace(/\n+/g, '. '): every run of line feeds
RECURSIVE NewlinesToBreaks(_)
NewlinesToBreaks(s) ==
    IF s = <<>> THEN <<>>
    ELSE IF Head(s) = "\n"
    THEN IF Len(s) >= 2 /\ s[2] = "\n"
         THEN NewlinesToBreaks(Tail(s))
         ELSE <<".", " ">> \o NewlinesToBreaks(Tail(s))
    ELSE <<Head(s)>> \o NewlinesToBreaks(Tail(s))

\* the decimal digits; the digit of value d is Digits[d + 1]
Digits == <<"0", "1", "2", "3", "4", "5", "6", "7", "8", "9">>

IsDigit(c) == \E d \in 1..Len(Digits) : Digits[d] = c

DigitVal(c) == (CHOOSE d \in 1..Len(Digits) : Digits[d] = c) - 1

\* parseFloat on a run of digits
RECURSIVE parseFloat(_)
parseFloat(ds) ==
    IF ds = <<>> THEN 0
    ELSE 10 * parseFloat(SubSeq(ds, 1, Len(ds) - 1)) + DigitVal(ds[Len(ds)])

\* the template literal `${n}` of a whole number
RECURSIVE NumberToString(_)
NumberToString(n) ==
    IF n < 10 THEN <<Digits[n + 1]>>
    ELSE NumberToString(n \div 10) \o <<Digits[(n % 10) + 1]>>

\* elevenlabsTtsService.formatNumberAsCurrency on intPart and decPart, the
\* whole part and the rounded hundredths of its argument.  The words it writes
\* are one token each.
formatNumberAsCurrency(intPart, decPart) ==
    LET whole == IF intPart = 0 /\ decPart > 0 THEN <<>>
                 ELSE IF intPart = 1 THEN <<"um", " ", "reál">>
                 ELSE NumberToString(intPart) \o <<" ", "reáis">>
        cents == IF decPart = 1 THEN <<"um", " ", "centavo">>
                 ELSE NumberToString(decPart) \o <<" ", "centavos">>
    IN  IF decPart > 0
        THEN IF whole # <<>> THEN whole \o <<" ", "e", " ">> \o cents ELSE cents
        ELSE whole

\* how many digits stand at s[i], s[i+1], ..., at most max
RECURSIVE DigitRun(_, _, _)
DigitRun(s, i, max) ==
    IF max = 0 \/ i > Len(s) \/ ~IsDigit(s[i]) THEN 0
    ELSE 1 + DigitRun(s, i + 1, max - 1)

\* the first index from i on that holds no white space
RECURSIVE SkipSpaces(_, _)
SkipSpaces(s, i) ==
    IF i <= Len(s) /\ IsSpace(s[i]) THEN SkipSpaces(s, i + 1) ELSE i

\* the four rewrites of formatCurrencyForSpeech on texts without '.' and ',':
\* where the n-th pattern matches at s[i], the index of the first digit of the
\* amount and the index after the match; <<0, 0>> where it does not match.
\*   1  /R\$\s*(\d{1,3}(?:\.\d{3})*(?:,\d{2})?)/g
\*   2  /(\d{1,3}(?:\.\d{3})*),(\d{2})\s*reais/gi   (needs a comma)
\*   3  /(\d+(?:\.\d{1,2})?)\s*reais/gi
\*   4  /R\$\s*(\d+(?:[.,]\d{1,2})?)/g
CurrencyMatch(n, s, i) ==
    IF n \in {1, 4}
    THEN IF i + 1 <= Len(s) /\ s[i] = "R" /\ s[i + 1] = "$"
         THEN LET j == SkipSpaces(s, i + 2)
                  k == DigitRun(s, j, IF n = 1 THEN 3 ELSE Len(s))
              IN  IF k > 0 THEN <<j, j + k, j + k>> ELSE <<0, 0, 0>>
         ELSE <<0, 0, 0>>
    ELSE IF n = 3
    THEN LET k == DigitRun(s, i, Len(s))
             j == SkipSpaces(s, i + k)
         IN  IF k > 0 /\ j <= Len(s) /\ s[j] = "reais"
             THEN <<i, i + k, j + 1>> ELSE <<0, 0, 0>>
    ELSE <<0, 0, 0>>

\* String.prototype.replace with the n-th pattern and its callback, from s[i] on
RECURSIVE ReplaceCurrency(_, _, _)
ReplaceCurrency(n, s, i) ==
    IF i > Len(s) THEN <<>>
    ELSE LET m == CurrencyMatch(n, s, i)
         IN  IF m[1] > 0
             THEN formatNumberAsCurrency(parseFloat(SubSeq(s, m[1], m[2] - 1)), 0)
                      \o ReplaceCurrency(n, s, m[3])
             ELSE <<s[i]>> \o ReplaceCurrency(n, s, i + 1)

\* elevenlabsTtsService.formatCurrencyForSpeech
formatCurrencyForSpeech(text) ==
    ReplaceCurrency(4, ReplaceCurrency(3, ReplaceCurrency(2,
        ReplaceCurrency(1, text, 1), 1), 1), 1)

\* elevenlabsTtsService.cleanTextForTts: the currency rewrite, then emoji,
\* '**', line feeds, trim
cleanTextForTts(text) ==
    Trim(NewlinesToBreaks(StripBold(
        SelectSeq(formatCurrencyForSpeech(text), LAMBDA c : ~IsEmoji(c)))))

\* isaVoiceService.PREMIUM_VOICE_PAGES
PREMIUM_VOICE_PAGES == {"dashboard", "planner", "card", "goals", "ai", "agenda", "rotinas"}

\* the page types the callers pass
Pages == {"dashboard", "rotina-inteligente"}

usePremiumVoice(pageType, forceNative) == ~forceNative /\ pageType \in PREMIUM_VOICE_PAGES

\* nativeTtsService.speakNative(text) in call c (record r): the voice queue
\* halts whatever output is in flight and the utterance is spoken, or nothing
\* happens where the platform has no speech synthesis
IsaToNative(c, r, cur) ==
    IF speechSupported
    THEN /\ call' = [call EXCEPT ![c] =
                       [r EXCEPT !.pc = "isa_native", !.isaNat = TRUE, !.handle = "none"]]
         /\ SpeakUtterance(c, NoCall)
    ELSE /\ call' = [call EXCEPT ![c] = Settle([r EXCEPT !.isaNat = TRUE], "resolved")]
         /\ Quiet(cur)

\* speakWithElevenLabs has settled in call c (record r): a direct call settles
\* the same way; isaSpeak returns on a resolution and, on a rejection, its catch
\* falls back to speakNative (isaVoiceService lines 246-256)
SweSettle(c, r, how, cur) ==
    IF r.op = "isa" /\ how = "rejected"
    THEN IsaToNative(c, r, cur)
    ELSE /\ call' = [call EXCEPT ![c] = Settle(r, how)]
         /\ Quiet(cur)

\* speakWithElevenLabs(text) called on its own, up to its first await
\* (lines 134-157)
SweStart(c, t) ==
    /\ call[c].op = "idle"
    /\ LET r0 == [Idle EXCEPT !.op = "swe", !.text = t, !.result = "pending"]
       IN  IF cleanTextForTts(textOf(r0)) = <<>>
           THEN /\ call' = [call EXCEPT ![c] = Settle(r0, "resolved")]
                /\ UNCHANGED <<currentAudio, utterance>>
           ELSE /\ call' = [call EXCEPT ![c] =
                              [r0 EXCEPT !.pc = "swe_fetch", !.elResp = "pending", !.net = TRUE]]
                /\ StopAllAudio
    /\ UNCHANGED <<audioCache, store, voiceEnabled, speechSupported, serverVars, greetVars, pureVars, appVars>>

\* cleanTextForTts of each text that is spoken, worked out once
CleanedForTts == [u \in UtteranceIds |-> cleanTextForTts(Utterances[u])]

\* isaSpeak(text, pageType, forceNative) up to its first await: nothing when
\* the voice is disabled; else stopAllVoice, stopAllAudio, and speakWithElevenLabs
\* on a premium page or speakNative elsewhere
isaSpeak(c, t, pageType, forceNative) ==
    LET r0 == [Idle EXCEPT !.op = "isa", !.text = t, !.result = "pending",
                              !.premium = usePremiumVoice(pageType, forceNative)]
    IN  IF ~voiceEnabled
        THEN /\ call' = [call EXCEPT ![c] = Settle(r0, "resolved")]
             /\ UNCHANGED <<currentAudio, utterance>>
        ELSE IF ~r0.premium
        THEN IsaToNative(c, r0, NoCall)
        ELSE IF CleanedForTts[t] = <<>>
        THEN /\ call' = [call EXCEPT ![c] = Settle(r0, "resolved")]
             /\ StopAllAudio
        ELSE /\ call' = [call EXCEPT ![c] =
                           [r0 EXCEPT !.pc = "swe_fetch", !.elResp = "pending", !.net = TRUE]]
             /\ StopAllAudio

\* a caller outside the greeting hook runs isaSpeak in call c
IsaStart(c, t, pageType, forceNative) ==
    /\ call[c].op = "idle"
    /\ isaSpeak(c, t, pageType, forceNative)
    /\ UNCHANGED <<audioCache, store, voiceEnabled, speechSupported, serverVars,
                   greetVars, pureVars, appVars>>

\* a speakWithElevenLabs whose fallback chain ends without the native engine
SweToNativeSkipped(c, r, cur) == SweSettle(c, r, "resolved", cur)

\* speakWithNativeTts(text): resolves at once without window.speechSynthesis,
\* else cancels the utterance being spoken and speaks its own
SweToNative(c, r, cur) ==
    IF speechSupported
    THEN /\ call' = [call EXCEPT ![c] =
                       [r EXCEPT !.pc = "swe_native", !.natInv = TRUE, !.handle = "none"]]
         /\ SpeakUtterance(c, cur)
    ELSE SweSettle(c, [r EXCEPT !.natInv = TRUE], "resolved", cur)

\* a speakWithElevenLabs that answers a failed primary fetch with the native
\* engine at once, leaving Gemini out
SweAfterFetchToNative(c, resp) ==
    /\ call[c].pc = "swe_fetch"
    /\ LET r == [call[c] EXCEPT !.elResp = resp]
       IN  IF resp \in {"netError", "httpError"}
           THEN SweToNative(c, r, currentAudio)
           ELSE /\ call' = [call EXCEPT ![c] =
                              [r EXCEPT !.pc = "swe_play", !.handle = generateAudio(resp),
                                        !.elPlay = "playing"]]
                /\ PlayAudioExclusively(c)
    /\ UNCHANGED <<audioCache, store, voiceEnabled, speechSupported, serverVars, greetVars, pureVars, appVars>>

\* speakWithElevenLabs after `await fetch(...)`: a rejected fetch (catch) and a
\* response that is not ok go to speakWithGeminiTts; every ok response, a 204
\* included, becomes an Audio element that is played (lines 159-193)
SweAfterFetch(c, resp) ==
    /\ call[c].pc = "swe_fetch"
    /\ LET r == [call[c] EXCEPT !.elResp = resp]
       IN  IF resp \in {"netError", "httpError"}
           THEN /\ call' = [call EXCEPT ![c] =
                              [r EXCEPT !.pc = "swe_gem_fetch", !.gemResp = "pending"]]
                /\ UNCHANGED <<currentAudio, utterance>>
           ELSE /\ call' = [call EXCEPT ![c] =
                              [r EXCEPT !.pc = "swe_play", !.handle = generateAudio(resp),
                                        !.elPlay = "playing"]]
                /\ PlayAudioExclusively(c)
    /\ UNCHANGED <<audioCache, store, voiceEnabled, speechSupported, serverVars, greetVars, pureVars, appVars>>

\* speakWithElevenLabs after its `return playAudioExclusively(audio)` settles:
\* the promise is returned, not awaited, so a rejection is not caught
SweAfterPlay(c, outcome) ==
    /\ call[c].pc = "swe_play"
    /\ outcome \in PlayOutcomes(c)
    /\ SweSettle(c, [call[c] EXCEPT !.elPlay = outcome],
                 IF outcome = "error" THEN "rejected" ELSE "resolved", Released(c))
    /\ UNCHANGED <<audioCache, store, voiceEnabled, speechSupported, serverVars, greetVars, pureVars, appVars>>

\* speakWithGeminiTts after `await fetch(...)` (lines 26-44, 47-50)
SweAfterGemini(c, resp) ==
    /\ call[c].pc = "swe_gem_fetch"
    /\ LET r == [call[c] EXCEPT !.gemResp = resp]
       IN  IF tryNetworkTTS(resp) # "none"
           THEN /\ call' = [call EXCEPT ![c] =
                              [r EXCEPT !.pc = "swe_gem_play", !.handle = "audio",
                                        !.gemPlay = "playing"]]
                /\ PlayAudioExclusively(c)
           ELSE SweToNative(c, r, currentAudio)
    /\ UNCHANGED <<audioCache, store, voiceEnabled, speechSupported, serverVars, greetVars, pureVars, appVars>>

\* speakWithGeminiTts after `await playAudioExclusively(audio)`: true, or false
\* from its catch, and then speakWithNativeTts
SweAfterGeminiPlay(c, outcome) ==
    /\ call[c].pc = "swe_gem_play"
    /\ outcome \in PlayOutcomes(c)
    /\ LET r == [call[c] EXCEPT !.gemPlay = outcome]
       IN  IF outcome = "error"
           THEN SweToNative(c, r, Released(c))
           ELSE SweSettle(c, r, "resolved", Released(c))
    /\ UNCHANGED <<audioCache, store, voiceEnabled, speechSupported, serverVars, greetVars, pureVars, appVars>>

\* the utterance of call c has ended, failed or been cancelled: onend and
\* onerror both resolve
NativeDone(c) ==
    /\ call[c].pc \in {"swe_native", "isa_native"}
    /\ call' = [call EXCEPT ![c] = Settle(call[c], "resolved")]
    /\ utterance' = IF utterance = c THEN NoCall ELSE utterance
    /\ UNCHANGED <<currentAudio, audioCache, store, voiceEnabled, speechSupported, serverVars, greetVars, pureVars, appVars>>

\* ------------------------------------------- preload, clearing, stopping

\* Object.keys(COMMON_PHRASES), in insertion order
PhraseOrder == <<"bom_dia", "processando">>

\* preloadCommonPhrases: on to the next key of the loop, or done
PreloadNext(r) ==
    IF r.idx = Len(PhraseOrder)
    THEN Settle(r, "resolved")
    ELSE [r EXCEPT !.pc = "pre_get", !.idx = r.idx + 1, !.key = PhraseOrder[r.idx + 1],
                   !.handle = "none"]

PreloadStart(c) ==
    /\ call[c].op = "idle"
    /\ call' = [call EXCEPT ![c] =
                  [Idle EXCEPT !.op = "preload", !.pc = "pre_get", !.idx = 1,
                               !.key = PhraseOrder[1], !.result = "pending"]]
    /\ UNCHANGED <<currentAudio, utterance, audioCache, store, voiceEnabled,
                   speechSupported, serverVars, greetVars, pureVars, appVars>>

\* preloadCommonPhrases after `await getCachedAudio(key)`
PreloadAfterGet(c) ==
    /\ call[c].pc = "pre_get"
    /\ LET r        == call[c]
           existing == getCachedAudio(r.key)
       IN  call' = [call EXCEPT ![c] =
                      IF existing # "none"
                      THEN PreloadNext(r)
                      ELSE [r EXCEPT !.pc = "pre_fetch", !.net = TRUE,
                                     !.presentAtIssue = store[r.key] # "none"]]
    /\ UNCHANGED <<currentAudio, utterance, audioCache, store, voiceEnabled,
                   speechSupported, serverVars, greetVars, pureVars, appVars>>

\* preloadCommonPhrases after `await generateAudio(text)`
PreloadAfterGenerate(c, resp) ==
    /\ call[c].pc = "pre_fetch"
    /\ LET blob == generateAudio(resp)
       IN  call' = [call EXCEPT ![c] =
                      IF blob # "none"
                      THEN [call[c] EXCEPT !.pc = "pre_set", !.handle = blob]
                      ELSE [call[c] EXCEPT !.pc = "pre_sleep"]]
    /\ UNCHANGED <<currentAudio, utterance, audioCache, store, voiceEnabled,
                   speechSupported, serverVars, greetVars, pureVars, appVars>>

\* preloadCommonPhrases after `await setCachedAudio(key, audioBlob)`
PreloadAfterSet(c) ==
    /\ call[c].pc = "pre_set"
    /\ store' = setCachedAudio(call[c].key, call[c].handle)
    /\ call' = [call EXCEPT ![c].pc = "pre_sleep"]
    /\ UNCHANGED <<currentAudio, utterance, audioCache, voiceEnabled, speechSupported,
                   serverVars, greetVars, pureVars, appVars>>

\* preloadCommonPhrases after its 500 ms pause
PreloadAfterSleep(c) ==
    /\ call[c].pc = "pre_sleep"
    /\ call' = [call EXCEPT ![c] = PreloadNext(call[c])]
    /\ UNCHANGED <<currentAudio, utterance, audioCache, store, voiceEnabled,
                   speechSupported, serverVars, greetVars, pureVars, appVars>>

\* cachedAudioService.clearAudioCache
ClearAudioCache ==
    /\ store' = [k \in PhraseKeys |-> "none"]
    /\ UNCHANGED <<call, currentAudio, utterance, audioCache, voiceEnabled,
                   speechSupported, serverVars, greetVars, pureVars, appVars>>

\* ttsService.clearCache
ClearCache ==
    /\ audioCache' = {}
    /\ call' = [c \in CallIds |-> [call[c] EXCEPT !.cachedAtStart = FALSE]]
    /\ UNCHANGED <<currentAudio, utterance, store, voiceEnabled, speechSupported,
                   serverVars, greetVars, pureVars, appVars>>

\* ttsService.stopSpeaking
StopSpeaking ==
    /\ StopAllAudio
    /\ UNCHANGED <<call, audioCache, store, voiceEnabled, speechSupported, serverVars, greetVars, pureVars, appVars>>

\* the caller has the settled promise of call c
Return(c) ==
    /\ call[c].pc = "done"
    /\ call' = [call EXCEPT ![c] = Idle]
    /\ UNCHANGED <<currentAudio, utterance, audioCache, store, voiceEnabled,
                   speechSupported, serverVars, greetVars, pureVars, appVars>>

\* ------------------------------------------- useIsaGreeting

\* hook instances that exist at once: the page's instance and the one a
\* re-mount creates while the flow of the first still runs
MaxHooks == 2

HookIds == 1..MaxHooks

\* the ghost counters of spokenCount stop here
MaxSpoken == 2

\* the tabs whose page mounts the hook; both load data before they speak
GreetTabs == {"dashboard", "planner"}

\* what the data loading of speakPageSpecificGreeting ends with: a message, or
\* nothing to say (an empty message, or a load that threw)
Loads == {"message", "nothing"}

\* how the synthesis of a greeting is answered: with audio or not at all
GreetResponses == {"audio", "netError"}

\* the utterance that stands for a greeting text
GreetingText == 1

\* a hook instance that is not mounted and runs no flow.  `last` records how
\* the latest call of speakGreeting that got past the processing guard went;
\* the code does not read it.
NoHook ==
    [mounted |-> FALSE, page |-> "dashboard", enabled |-> FALSE,
     hasSpoken |-> FALSE, isProcessing |-> FALSE, pc |-> "idle", last |-> "none"]

\* an instance that is unmounted and runs no flow is gone
Gone(r) == IF ~r.mounted /\ r.pc = "idle" THEN NoHook ELSE r

Bump(n) == IF n < MaxSpoken THEN n + 1 ELSE n

NoneSpoken == [day |-> 0, tab |-> [p \in GreetTabs |-> 0]]

\* voiceQueueService
wasTabGreetedSession(p) == p \in tabGreeted

wasDailyGreetingSpoken == dayGreeted

isVoicePlaying == currentAudio # NoCall \/ utterance # NoCall

\* isaVoiceService
isFirstAccessToday == ~wasDailyGreetingSpoken

wasTabGreeted(p) == wasTabGreetedSession(p)

\* the page component mounts: a fresh hook instance with both refs false, and
\* its effect arms the timer that will call speakGreeting
Mount(h, p, e) ==
    /\ \A g \in HookIds : ~hook[g].mounted
    /\ hook[h].pc = "idle"
    /\ hook' = [hook EXCEPT ![h] =
                  [NoHook EXCEPT !.mounted = TRUE, !.page = p, !.enabled = e]]
    /\ timer' = timer \cup {h}
    /\ UNCHANGED <<tabGreeted, dayGreeted, spokenCount, clientVars, serverVars, pureVars, appVars>>

\* the page component unmounts: the timer is cleared, a flow that runs goes on
Unmount(h) ==
    /\ hook[h].mounted
    /\ hook' = [hook EXCEPT ![h] = Gone([@ EXCEPT !.mounted = FALSE])]
    /\ timer' = timer \ {h}
    /\ UNCHANGED <<tabGreeted, dayGreeted, spokenCount, clientVars, serverVars, pureVars, appVars>>

\* a speakGreeting that halts the voice before it looks whether one plays
GreetReturnHalting(h, why) ==
    /\ hook' = [hook EXCEPT ![h].last = why]
    /\ StopAllAudio
    /\ UNCHANGED <<call, tabGreeted, dayGreeted, spokenCount>>

\* speakGreeting returns at one of its guards
GreetReturn(h, why) ==
    /\ hook' = [hook EXCEPT ![h].last = IF why = "early" THEN @ ELSE why]
    /\ UNCHANGED <<call, currentAudio, utterance, tabGreeted, dayGreeted, spokenCount>>

\* speakGreeting of hook instance h, up to its first await.  Its caller is the
\* timer that the effect on [pageType, userId, enabled] arms: the one of the
\* mount if it is still armed, else one that a change of userId or enabled has
\* armed since
SpeakGreeting(h) ==
    /\ hook[h].mounted
    /\ LET r == hook[h]
       IN  IF ~voiceEnabled THEN GreetReturn(h, "early")
           ELSE IF ~r.enabled THEN GreetReturn(h, "early")
           ELSE IF r.isProcessing THEN GreetReturn(h, "early")
           ELSE IF r.hasSpoken THEN GreetReturn(h, "spoken")
           ELSE IF wasTabGreeted(r.page)
           THEN /\ hook' = [hook EXCEPT ![h].hasSpoken = TRUE, ![h].last = "greeted"]
                /\ UNCHANGED <<call, currentAudio, utterance, tabGreeted, dayGreeted,
                               spokenCount>>
           ELSE IF isVoicePlaying THEN GreetReturn(h, "playing")
           ELSE IF isFirstAccessToday /\ r.page = "dashboard"
           THEN /\ hook' = [hook EXCEPT ![h].isProcessing = TRUE,
                                        ![h].pc = "first_speak", ![h].last = "started"]
                /\ isaSpeak(h, GreetingText, r.page, FALSE)
                /\ spokenCount' = [spokenCount EXCEPT !.day = Bump(@)]
                /\ UNCHANGED <<tabGreeted, dayGreeted>>
           ELSE /\ hook' = [hook EXCEPT ![h].isProcessing = TRUE,
                                        ![h].pc = "loading", ![h].last = "started"]
                /\ StopAllAudio
                /\ UNCHANGED <<call, tabGreeted, dayGreeted, spokenCount>>
    /\ timer' = timer \ {h}
    /\ UNCHANGED <<audioCache, store, voiceEnabled, speechSupported, serverVars, pureVars, appVars>>

\* speakGreeting after `await isaSpeak(greeting, pageType)`: both marks, then
\* speakPageSpecificGreeting up to its data loading; a rejection skips to finally
GreetAfterFirst(h) ==
    /\ hook[h].pc = "first_speak"
    /\ call[h].pc = "done"
    /\ call' = [call EXCEPT ![h] = Idle]
    /\ IF call[h].result = "rejected"
       THEN /\ hook' = [hook EXCEPT ![h] =
                          Gone([@ EXCEPT !.isProcessing = FALSE, !.pc = "idle"])]
            /\ UNCHANGED <<currentAudio, utterance, tabGreeted, dayGreeted>>
       ELSE /\ dayGreeted' = TRUE
            /\ tabGreeted' = tabGreeted \cup {hook[h].page}
            /\ hook' = [hook EXCEPT ![h].hasSpoken = TRUE, ![h].pc = "loading"]
            /\ StopAllAudio
    /\ UNCHANGED <<spokenCount, timer, audioCache, store, voiceEnabled, speechSupported,
                   serverVars, pureVars, appVars>>

\* speakPageSpecificGreeting after its data loading: isaSpeak(message, pageType)
\* when there is a message, else back in speakGreeting and through its finally
GreetAfterLoad(h, load) ==
    /\ hook[h].pc = "loading"
    /\ IF load = "message"
       THEN /\ hook' = [hook EXCEPT ![h].pc = "page_speak"]
            /\ isaSpeak(h, GreetingText, hook[h].page, FALSE)
            /\ spokenCount' = IF voiceEnabled
                              THEN [spokenCount EXCEPT !.tab[hook[h].page] = Bump(@)]
                              ELSE spokenCount
       ELSE /\ hook' = [hook EXCEPT ![h] =
                          Gone([@ EXCEPT !.isProcessing = FALSE, !.pc = "idle"])]
            /\ UNCHANGED <<call, currentAudio, utterance, spokenCount>>
    /\ UNCHANGED <<tabGreeted, dayGreeted, timer, audioCache, store, voiceEnabled,
                   speechSupported, serverVars, pureVars, appVars>>

\* speakPageSpecificGreeting after `await isaSpeak(message, pageType)`: the tab
\* is marked, then the finally of speakGreeting
GreetAfterPage(h) ==
    /\ hook[h].pc = "page_speak"
    /\ call[h].pc = "done"
    /\ call' = [call EXCEPT ![h] = Idle]
    /\ IF call[h].result = "rejected"
       THEN /\ hook' = [hook EXCEPT ![h] =
                          Gone([@ EXCEPT !.isProcessing = FALSE, !.pc = "idle"])]
            /\ UNCHANGED tabGreeted
       ELSE /\ tabGreeted' = tabGreeted \cup {hook[h].page}
            /\ hook' = [hook EXCEPT ![h] =
                          Gone([@ EXCEPT !.hasSpoken = TRUE, !.isProcessing = FALSE,
                                         !.pc = "idle"])]
    /\ UNCHANGED <<dayGreeted, spokenCount, timer, currentAudio, utterance, audioCache,
                   store, voiceEnabled, speechSupported, serverVars, pureVars, appVars>>

\* the timer of hook instance h's effect fires (useIsaGreeting lines 290-293):
\* the one call of speakGreeting that a mount brings about
TimerFires(h) ==
    /\ h \in timer
    /\ SpeakGreeting(h)

\* voiceQueueService.clearTabGreetings
clearTabGreetings == {}

\* isaVoiceService.setVoiceEnabled(enabled): the setting is stored and, when the
\* voice is turned on, the tab greetings of the session are forgotten
SetVoiceEnabled(enabled) ==
    /\ voiceEnabled' = enabled
    /\ tabGreeted' = IF enabled THEN clearTabGreetings ELSE tabGreeted
    /\ spokenCount' = IF enabled THEN [spokenCount EXCEPT !.tab = NoneSpoken.tab]
                      ELSE spokenCount
    /\ UNCHANGED <<hook, dayGreeted, timer, call, currentAudio, utterance, audioCache,
                   store, speechSupported, serverVars, pureVars, appVars>>

\* ------------------------------------------- text-to-speech edge function

\* how many keys of ELEVENLABS_API_KEY_1..5 are configured, at most
MaxKeys == 3

\* requests the function instance serves at once
MaxReqs == 2

ReqIds == 1..MaxReqs

\* what ElevenLabs can answer one attempt with: a 2xx audio reply, 401 or 429,
\* another status that is not ok, or a fetch that throws
Upstream == {"ok", "quota", "bad", "throw"}

\* the `text` of the request bodies: none, blank, an emoji and a space, and a
\* sentence in bold
Bodies ==
    << <<>>,
       <<" ">>,
       <<"EMOJI", " ">>,
       <<"*", "*", "O", "i", "*", "*">> >>

BodyIds == 1..Len(Bodies)

\* a request slot that serves nothing.  `response` is the handler's variable
\* and `status` the status of its reply; `attempts` (the keys tried, in
\* order), `allQuota` (every attempt so far answered 401 or 429) and `alone`
\* (no other request has taken a key since this one began) record what the
\* request has done.
NoReq ==
    [pc |-> "idle", triedKeys |-> 0, startIndex |-> 0, response |-> "null",
     status |-> 0, attempts |-> <<>>, allQuota |-> TRUE, alone |-> TRUE]

\* the handler's "Clean text" chain (lines 214-219)
cleanText(text) ==
    Trim(NewlinesToBreaks(StripBold(SelectSeq(text, LAMBDA c : ~IsEmoji(c)))))

\* a getNextApiKey that forgets to advance the cursor
getNextApiKeyStuck == currentKeyIndex

\* a getNextApiKey that advances the cursor without wrapping it
getNextApiKeyUnwrapped == currentKeyIndex + 1

\* getNextApiKey: the cursor after the key under it has been handed out
getNextApiKey == (currentKeyIndex + 1) % poolSize

\* tryGenerateWithKey: null on 401, 429 and on a fetch that throws, else the
\* response
tryGenerateWithKey(up) == IF up \in {"quota", "throw"} THEN "null" ELSE up

\* the handler answers request r
Reply(r, status) == [req[r] EXCEPT !.pc = "replied", !.status = status]

\* one turn of the key loop by request r (record q): getNextApiKey hands out
\* the key under the cursor and the upstream fetch is awaited; the requests
\* that wait for their own attempt are no longer alone
TakeKey(r, q) ==
    /\ req' = [o \in ReqIds |->
                 IF o = r
                 THEN [q EXCEPT !.pc = "fetch",
                                !.attempts = Append(q.attempts, currentKeyIndex)]
                 ELSE IF req[o].pc = "fetch" THEN [req[o] EXCEPT !.alone = FALSE]
                 ELSE req[o]]
    /\ currentKeyIndex' = getNextApiKey

\* the handler up to its first upstream fetch (lines 190-237): 400 without
\* text, 500 without keys, 400 when cleaning leaves nothing, else the first
\* key is taken
Serve(r, b) ==
    /\ req[r].pc = "idle"
    /\ LET text == Bodies[b]
       IN  IF text = <<>> \/ Trim(text) = <<>>
           THEN /\ req' = [req EXCEPT ![r] = Reply(r, 400)]
                /\ UNCHANGED currentKeyIndex
           ELSE IF poolSize = 0
           THEN /\ req' = [req EXCEPT ![r] = Reply(r, 500)]
                /\ UNCHANGED currentKeyIndex
           ELSE IF cleanText(text) = <<>>
           THEN /\ req' = [req EXCEPT ![r] = Reply(r, 400)]
                /\ UNCHANGED currentKeyIndex
           ELSE TakeKey(r, [req[r] EXCEPT !.startIndex = currentKeyIndex])
    /\ UNCHANGED <<poolSize, clientVars, greetVars, pureVars, appVars>>

\* the handler after `await tryGenerateWithKey(apiKey, cleanText)` (lines
\* 238-274): an ok response leaves the loop and is returned as audio; else
\* triedKeys grows, the next key is taken while triedKeys < API_KEYS.length,
\* and after the loop the reply is 204
AfterAttempt(r, up) ==
    /\ req[r].pc = "fetch"
    /\ LET response == tryGenerateWithKey(up)
           q        == [req[r] EXCEPT !.response = response,
                                      !.allQuota = req[r].allQuota /\ up = "quota"]
       IN  IF response = "ok"
           THEN /\ req' = [req EXCEPT ![r] = [q EXCEPT !.pc = "replied", !.status = 200]]
                /\ UNCHANGED currentKeyIndex
           ELSE IF q.triedKeys + 1 < poolSize
           THEN TakeKey(r, [q EXCEPT !.triedKeys = q.triedKeys + 1])
           ELSE /\ req' = [req EXCEPT ![r] =
                             [q EXCEPT !.pc = "replied", !.status = 204,
                                       !.triedKeys = q.triedKeys + 1]]
                /\ UNCHANGED currentKeyIndex
    /\ UNCHANGED <<poolSize, clientVars, greetVars, pureVars, appVars>>

\* the reply of request r has been sent
Sent(r) ==
    /\ req[r].pc = "replied"
    /\ req' = [req EXCEPT ![r] = NoReq]
    /\ UNCHANGED <<currentKeyIndex, poolSize, clientVars, greetVars, pureVars, appVars>>

\* ------------------------------------------- the text functions on their own

\* the longest text that is cleaned
MaxText == 5

\* the characters of the texts: currency markers, digits, white space, an
\* asterisk, an emoji of the stripped ranges and the word "reais"
TextChars == {"R", "$", "0", "1", "5", " ", "\n", "*", "EMOJI", "reais"}

Texts == UNION {[1..n -> TextChars] : n \in 0..MaxText}

\* the cleaning function of the client or of the edge function
Clean(f, text) == IF f = "client" THEN cleanTextForTts(text) ELSE cleanText(text)

\* the text is cleaned
CleanOnce(f) ==
    /\ res = <<>>
    /\ res' = [fn |-> f, out |-> Clean(f, arg), again |-> FALSE]
    /\ UNCHANGED <<arg, clientVars, serverVars, greetVars, appVars>>

\* what the cleaning has returned is cleaned again
CleanAgain ==
    /\ res # <<>>
    /\ ~res.again
    /\ arg' = res.out
    /\ res' = [res EXCEPT !.out = Clean(res.fn, res.out), !.again = TRUE]
    /\ UNCHANGED <<clientVars, serverVars, greetVars, appVars>>

\* ------------------------------------------- isaVoiceService.currencyToSpeech

\* numberToWords: its four tables (index 0 of the code is index 1 here)
units == <<"", "um", "dois", "três", "quatro", "cinco", "seis", "sete", "oito", "nove">>

teens == <<"dez", "onze", "doze", "treze", "quatorze", "quinze", "dezesseis",
           "dezessete", "dezoito", "dezenove">>

tens == <<"", "", "vinte", "trinta", "quarenta", "cinquenta", "sessenta", "setenta",
          "oitenta", "noventa">>

hundreds == <<"", "cento", "duzentos", "trezentos", "quatrocentos", "quinhentos",
              "seiscentos", "setecentos", "oitocentos", "novecentos">>

\* isaVoiceService.numberToWords: the string as its words and the blanks
\* between them
RECURSIVE numberToWords(_)
numberToWords(num) ==
    IF num = 0 THEN <<"zero">>
    ELSE IF num >= 1000000
    THEN LET millions  == num \div 1000000
             remainder == num % 1000000
             result    == IF millions = 1 THEN <<"um", " ", "milhão">>
                          ELSE numberToWords(millions) \o <<" ", "milhões">>
         IN  IF remainder > 0
             THEN result \o (IF remainder < 100 THEN <<" ", "e", " ">> ELSE <<" ">>)
                         \o numberToWords(remainder)
             ELSE result
    ELSE IF num >= 1000
    THEN LET thousands == num \div 1000
             remainder == num % 1000
             result    == IF thousands = 1 THEN <<"mil">>
                          ELSE numberToWords(thousands) \o <<" ", "mil">>
         IN  IF remainder > 0
             THEN result \o (IF remainder < 100 THEN <<" ", "e", " ">> ELSE <<" ">>)
                         \o numberToWords(remainder)
             ELSE result
    ELSE IF num >= 100
    THEN IF num = 100 THEN <<"cem">>
         ELSE LET h         == num \div 100
                  remainder == num % 100
              IN  IF remainder > 0
                  THEN <<hundreds[h + 1], " ", "e", " ">> \o numberToWords(remainder)
                  ELSE <<hundreds[h + 1]>>
    ELSE IF num >= 20
    THEN LET t == num \div 10
             u == num % 10
         IN  IF u > 0 THEN <<tens[t + 1], " ", "e", " ", units[u + 1]>>
             ELSE <<tens[t + 1]>>
    ELSE IF num >= 10 THEN <<teens[(num - 10) + 1]>>
    ELSE <<units[num + 1]>>

\* a currencyToSpeech that always says the unit in the plural
UnitWordPlural(reais) == "reáis"

\* the unit word: reais === 1 ? ' reál' : ' reáis'
UnitWord(reais) == IF reais = 1 THEN "reál" ELSE "reáis"

\* the subunit word: centavos === 1 ? ' centavo' : ' centavos'
SubunitWord(centavos) == IF centavos = 1 THEN "centavo" ELSE "centavos"

\* isaVoiceService.currencyToSpeech on a non-negative amount given in whole
\* cents: Math.floor(value) is cents \div 100, and Math.round of the hundredfold
\* fraction is cents % 100 (the floating-point error of the subtraction and the
\* product stays far below the half cent that would change the rounding)
currencyToSpeech(cents) ==
    LET reais    == cents \div 100
        centavos == cents % 100
        whole    == IF reais > 0
                    THEN numberToWords(reais) \o <<" ", UnitWord(reais)>>
                    ELSE <<>>
        joined   == IF centavos > 0 /\ reais > 0 THEN whole \o <<" ", "e", " ">> ELSE whole
    IN  IF cents = 0 THEN <<"zero", " ", "reáis">>
        ELSE IF centavos > 0
        THEN joined \o numberToWords(centavos) \o <<" ", SubunitWord(centavos)>>
        ELSE joined

\* the whole parts of the amounts: every one up to MaxReais, and some that
\* reach the hundreds, the thousands and the millions of numberToWords
MaxReais == 21

ReaisSamples ==
    0..MaxReais \cup {99, 100, 101, 200, 999, 1000, 1001, 1100, 2000, 21345,
                      1000000, 1000050, 2300000}

\* the amounts, in cents
Amounts == {100 * r + c : r \in ReaisSamples, c \in 0..99}

\* currencyToSpeech(value) is called
CurrencyToSpeech ==
    /\ res = <<>>
    /\ res' = currencyToSpeech(arg)
    /\ UNCHANGED <<arg, clientVars, serverVars, greetVars, appVars>>

\* ------------------------------------------- gemini-tts edge functions

\* the longest text of a request body
MaxGemText == 2

GemChars == {" ", "\n", "a"}

\* what `await req.json()` and the destructuring of `text` can yield: a body
\* that is not JSON, a body without the field, a number, or a string
GemBodies ==
    {[kind |-> k, text |-> <<>>] : k \in {"notJson", "missing", "number"}}
        \cup {[kind |-> "string", text |-> t] :
                 t \in UNION {[1..n -> GemChars] : n \in 0..MaxGemText}}

\* the two handlers: gemini-tts/index.ts, which answers failures with 500, and
\* the Gemini 2.5 variant, which answers them with 204
GemEndpoints == {"cloud", "flash"}

\* how the provider can answer the handler's fetch
GemUpstream == {"audio", "noAudio", "httpError", "netError"}

\* JavaScript `!text` for what the body holds
Falsy(body) == body.kind = "missing" \/ (body.kind = "string" /\ body.text = <<>>)

\* the handlers' "Clean text for TTS" chain
geminiCleanText(text) ==
    Trim(NewlinesToBreaks(StripBold(SelectSeq(text, LAMBDA c : ~IsEmoji(c)))))

\* the reply of a handler that has failed: 500 with a JSON error, or 204
GemFailure(e) == IF e = "cloud" THEN 500 ELSE 204

GemReply(r, status) == [r EXCEPT !.pc = "replied", !.status = status]

\* a gemini-tts handler from the request to its reply or to the provider fetch
GeminiServe ==
    /\ gemReq.pc = "received"
    /\ LET r == gemReq
           b == r.body
       IN  gemReq' =
             IF r.endpoint = "cloud"
             THEN IF b.kind = "notJson" THEN GemReply(r, 500)
                  ELSE IF Falsy(b) THEN GemReply(r, 400)
                  ELSE IF ~r.key THEN GemReply(r, 500)
                  ELSE IF b.kind = "number" THEN GemReply(r, 500)
                  ELSE [r EXCEPT !.pc = "fetch", !.upstream = TRUE,
                                 !.sent = geminiCleanText(b.text)]
             ELSE IF b.kind = "notJson" \/ Falsy(b) \/ b.kind # "string"
                  THEN GemReply(r, 400)
                  ELSE IF ~r.key THEN GemReply(r, 204)
                  ELSE [r EXCEPT !.pc = "fetch", !.upstream = TRUE,
                                 !.sent = geminiCleanText(b.text)]
    /\ UNCHANGED <<clientVars, serverVars, greetVars, pureVars, gtfs, sptrans, rotina,
                   links, modal>>

\* the handler after its provider fetch: the audio, or the failure reply
GeminiAfterFetch(resp) ==
    /\ gemReq.pc = "fetch"
    /\ gemReq' = GemReply(gemReq, IF resp = "audio" THEN 200
                                  ELSE GemFailure(gemReq.endpoint))
    /\ UNCHANGED <<clientVars, serverVars, greetVars, pureVars, gtfs, sptrans, rotina,
                   links, modal>>

\* ------------------------------------------- gtfsService.loadGTFSData

\* the callers of loadGTFSData (getNextArrivals, searchStops, ...) at once
MaxCallers == 3

CallerIds == 1..MaxCallers

\* fetches of /data/gtfs.zip that the model follows
MaxFetches == 2

\* module state before the first call: cachedData and loadingPromise are null.
\* `stage` is where the async body of the load stands, `joined` the callers
\* that were handed the promise of a load already in flight.
NoGtfs ==
    [cachedData |-> FALSE, loadingPromise |-> "null", stage |-> "none",
     fetches |-> 0, parses |-> 0, caller |-> [k \in CallerIds |-> "idle"],
     joined |-> {}]

\* what `await loadGTFSData()` gives a caller that holds a promise in state p
Awaited(p) ==
    CASE p = "fulfilled" -> "data"
      [] p = "rejected"  -> "failed"
      [] OTHER           -> "waiting"

\* a loadGTFSData that starts a load whenever the data is not there yet
LoadGTFSDataUnshared(k) ==
    /\ gtfs.caller[k] = "idle"
    /\ IF gtfs.cachedData
       THEN gtfs' = [gtfs EXCEPT !.caller[k] = "data"]
       ELSE /\ gtfs.fetches < MaxFetches
            /\ gtfs' = [gtfs EXCEPT !.loadingPromise = "pending", !.stage = "fetch",
                                    !.fetches = @ + 1, !.caller[k] = "waiting"]
    /\ UNCHANGED <<clientVars, serverVars, greetVars, pureVars, sptrans, rotina, links,
                   modal, gemReq>>

\* loadGTFSData() called by caller k, up to its return
LoadGTFSData(k) ==
    /\ gtfs.caller[k] = "idle"
    /\ IF gtfs.cachedData
       THEN gtfs' = [gtfs EXCEPT !.caller[k] = "data"]
       ELSE IF gtfs.loadingPromise # "null"
       THEN gtfs' = [gtfs EXCEPT !.caller[k] = Awaited(gtfs.loadingPromise),
                                 !.joined = IF gtfs.loadingPromise = "pending"
                                            THEN @ \cup {k} ELSE @]
       ELSE /\ gtfs.fetches < MaxFetches
            /\ gtfs' = [gtfs EXCEPT !.loadingPromise = "pending", !.stage = "fetch",
                                    !.fetches = @ + 1, !.caller[k] = "waiting"]
    /\ UNCHANGED <<clientVars, serverVars, greetVars, pureVars, sptrans, rotina, links,
                   modal, gemReq>>

\* the load after `await fetch('/data/gtfs.zip')` and `response.arrayBuffer()`:
\* on to JSZip, or the promise rejects
LoadAfterFetch(ok) ==
    /\ gtfs.stage = "fetch"
    /\ gtfs' = IF ok THEN [gtfs EXCEPT !.stage = "parse", !.parses = @ + 1]
               ELSE [gtfs EXCEPT !.stage = "none", !.loadingPromise = "rejected"]
    /\ UNCHANGED <<clientVars, serverVars, greetVars, pureVars, sptrans, rotina, links,
                   modal, gemReq>>

\* the load after JSZip.loadAsync and the reads of the four files: the indices
\* are built and cachedData is set, or the promise rejects on a broken archive
LoadAfterParse(ok) ==
    /\ gtfs.stage = "parse"
    /\ gtfs' = IF ok
               THEN [gtfs EXCEPT !.stage = "none", !.cachedData = TRUE,
                                 !.loadingPromise = "fulfilled"]
               ELSE [gtfs EXCEPT !.stage = "none", !.loadingPromise = "rejected"]
    /\ UNCHANGED <<clientVars, serverVars, greetVars, pureVars, sptrans, rotina, links,
                   modal, gemReq>>

\* the promise that caller k awaits has settled
CallerResume(k) ==
    /\ gtfs.caller[k] = "waiting"
    /\ gtfs.loadingPromise \in {"fulfilled", "rejected"}
    /\ gtfs' = [gtfs EXCEPT !.caller[k] = Awaited(gtfs.loadingPromise)]
    /\ UNCHANGED <<clientVars, serverVars, greetVars, pureVars, sptrans, rotina, links,
                   modal, gemReq>>

\* caller k has used what it got, or has handled the rejection
CallerDone(k) ==
    /\ gtfs.caller[k] \in {"data", "failed"}
    /\ gtfs' = [gtfs EXCEPT !.caller[k] = "idle", !.joined = @ \ {k}]
    /\ UNCHANGED <<clientVars, serverVars, greetVars, pureVars, sptrans, rotina, links,
                   modal, gemReq>>

\* ------------------------------------------- SPTrans edge function

\* invocations of the handler that one function instance serves at once
MaxInvs == 2

InvIds == 1..MaxInvs

\* body.action as the switch sees it: the login alone, an action that makes one
\* data request, a data action whose parameter is missing, an unknown action
SptActions == {"authenticate", "data", "badParams", "unknown"}

\* how SPTrans answers /Login/Autenticar: ok with the body true or false, a
\* status that is not ok, or a fetch that throws
LoginAnswers == {"true", "false", "httpError", "netError"}

\* how SPTrans answers the data request
DataAnswers == {"json", "httpError", "netError"}

\* an invocation slot that serves nothing.  `auth` is what authenticate has
\* returned in this invocation, `cookie` the session cookies sent with the
\* data request (the invocation whose login set them, 0 for none).
NoInv ==
    [action |-> "none", pc |-> "idle", auth |-> "none", dataSent |-> 0,
     cookie |-> 0, status |-> 0, success |-> FALSE]

\* module state of a fresh instance: no session cookies, the token configured
\* or not
NoSptrans(token) ==
    [inv |-> [i \in InvIds |-> NoInv], sessionCookies |-> 0, token |-> token]

\* authenticate's return value: response.ok && bodyText.toLowerCase() === 'true'
authenticate(answer) == answer = "true"

\* the catch of the handler: 401 for the authentication failure, else 500
SptError(r, message) ==
    [r EXCEPT !.pc = "replied", !.success = FALSE,
              !.status = IF message = "Falha na autenticacao" THEN 401 ELSE 500]

\* a makeAuthenticatedRequest that sends the data request whatever
\* authenticate has returned
makeAuthenticatedRequestUnchecked(r, isAuthenticated, cookies) ==
    [r EXCEPT !.pc = "data", !.dataSent = @ + 1, !.cookie = cookies]

\* makeAuthenticatedRequest after `await authenticate()`: the throw on false,
\* else the data request with the session cookies
makeAuthenticatedRequest(r, isAuthenticated, cookies) ==
    IF ~isAuthenticated
    THEN SptError(r, "Falha na autenticacao")
    ELSE [r EXCEPT !.pc = "data", !.dataSent = @ + 1, !.cookie = cookies]

\* the handler of invocation i from the request to its first await
SptServe(i, action) ==
    /\ sptrans.inv[i].pc = "idle"
    /\ LET r == [NoInv EXCEPT !.action = action]
       IN  sptrans' = [sptrans EXCEPT !.inv[i] =
                         IF action \in {"badParams", "unknown"}
                         THEN SptError(r, "other")
                         ELSE IF ~sptrans.token
                         THEN SptError(r, "Token SPTrans nao configurado")
                         ELSE [r EXCEPT !.pc = "login"]]
    /\ UNCHANGED <<clientVars, serverVars, greetVars, pureVars, gtfs, rotina, links,
                   modal, gemReq>>

\* authenticate of invocation i after its login fetch: the cookies of the
\* answer replace the session cookies, the boolean goes back to the caller
SptAfterLogin(i, answer, setCookie) ==
    /\ sptrans.inv[i].pc = "login"
    /\ LET r       == sptrans.inv[i]
           cookies == IF setCookie /\ answer # "netError" THEN i
                      ELSE sptrans.sessionCookies
           isAuth  == authenticate(answer)
           r1      == [r EXCEPT !.auth = IF isAuth THEN "true" ELSE "false"]
       IN  sptrans' =
             [sptrans EXCEPT
                !.sessionCookies = cookies,
                !.inv[i] =
                    IF answer = "netError" THEN SptError(r, "fetch failed")
                    ELSE IF r.action = "authenticate"
                    THEN [r1 EXCEPT !.pc = "replied", !.status = 200, !.success = isAuth]
                    ELSE makeAuthenticatedRequest(r1, isAuth, cookies)]
    /\ UNCHANGED <<clientVars, serverVars, greetVars, pureVars, gtfs, rotina, links,
                   modal, gemReq>>

\* makeAuthenticatedRequest of invocation i after its data fetch
SptAfterData(i, answer) ==
    /\ sptrans.inv[i].pc = "data"
    /\ sptrans' = [sptrans EXCEPT !.inv[i] =
                     IF answer = "json"
                     THEN [@ EXCEPT !.pc = "replied", !.status = 200, !.success = TRUE]
                     ELSE SptError(@, "Erro na API SPTrans")]
    /\ UNCHANGED <<clientVars, serverVars, greetVars, pureVars, gtfs, rotina, links,
                   modal, gemReq>>

\* the reply of invocation i has gone out
SptDone(i) ==
    /\ sptrans.inv[i].pc = "replied"
    /\ sptrans' = [sptrans EXCEPT !.inv[i] = NoInv]
    /\ UNCHANGED <<clientVars, serverVars, greetVars, pureVars, gtfs, rotina, links,
                   modal, gemReq>>

\* ------------------------------------------- RotinaInteligente: arrival alerts

\* the clock counts 30-second ticks, the period of the auto-refresh; 2 * 60 * 1000
\* ms are four of them
TwoMinutes == 4

\* ticks that the model follows
MaxTicks == 5

\* alerts that the model follows
MaxAlerts == 3

\* useState(10): the minutes the user needs to reach the stop
tempoAtePonto == 10

\* minutes to the next bus that a prediction can carry
BusMinutes == {0, 12, 20}

\* the page when its routine has loaded and the stop is selected: Date.now()
\* is far from 0, lastAlertTime is useState(0), and fetchPredictions holds the
\* checkAndTriggerAlert of the render that memoized it, which sees the
\* lastAlertTime of that render (`seen`)
NoRotina ==
    [now |-> TwoMinutes, lastAlertTime |-> 0, seen |-> 0, alerts |-> <<>>]

\* checkAndTriggerAlert: whether a message is spoken for a bus that many
\* minutes away
shouldSpeak(minutesToBus) == minutesToBus <= tempoAtePonto + 5

\* checkAndTriggerAlert(minutesToBus, lineName) as fetchPredictions calls it,
\* with alertsEnabled, voiceEnabled and a routine: the closure compares
\* Date.now() with the lastAlertTime it sees
checkAndTriggerAlert(r, minutesToBus) ==
    IF r.now - r.seen < TwoMinutes THEN r
    ELSE IF shouldSpeak(minutesToBus)
    THEN [r EXCEPT !.lastAlertTime = r.now, !.alerts = Append(@, r.now)]
    ELSE r

\* the interval fires, 30 seconds after the last time: fetchPredictions
AutoRefresh(minutesToBus) ==
    /\ rotina.now < TwoMinutes + MaxTicks
    /\ Len(rotina.alerts) < MaxAlerts
    /\ rotina' = checkAndTriggerAlert([rotina EXCEPT !.now = @ + 1], minutesToBus)
    /\ UNCHANGED <<clientVars, serverVars, greetVars, pureVars, gtfs, sptrans, links,
                   modal, gemReq>>

\* the user presses the refresh button: fetchPredictions
ManualRefresh(minutesToBus) ==
    /\ Len(rotina.alerts) < MaxAlerts
    /\ rotina' = checkAndTriggerAlert(rotina, minutesToBus)
    /\ UNCHANGED <<clientVars, serverVars, greetVars, pureVars, gtfs, sptrans, links,
                   modal, gemReq>>

\* the user selects a stop or a line: useCallback memoizes fetchPredictions
\* anew, with the checkAndTriggerAlert of this render, and the effect calls it
\* and restarts the interval
SelectStop(minutesToBus) ==
    /\ Len(rotina.alerts) < MaxAlerts
    /\ rotina' = checkAndTriggerAlert([rotina EXCEPT !.seen = rotina.lastAlertTime],
                                      minutesToBus)
    /\ UNCHANGED <<clientVars, serverVars, greetVars, pureVars, gtfs, sptrans, links,
                   modal, gemReq>>

\* ------------------------------------------- AdminAffiliateLinkGenerator

\* affiliate links that can exist at once
MaxLinks == 2

LinkIds == 1..MaxLinks

\* no link under an id
NoLink == [present |-> FALSE, is_active |-> FALSE, is_blocked |-> FALSE]

\* the dialog when it is closed
NoModal == [open |-> FALSE, isEditMode |-> FALSE, editingLink |-> 0, isActive |-> TRUE]

\* saveLinks(newLinks): the upsert, then setLinks(newLinks); on an error the
\* state keeps the links it had
saveLinks(newLinks, ok) == IF ok THEN newLinks ELSE links

\* openCreateModal
OpenCreateModal ==
    /\ ~modal.open
    /\ modal' = [open |-> TRUE, isEditMode |-> FALSE, editingLink |-> 0, isActive |-> TRUE]
    /\ UNCHANGED <<links, clientVars, serverVars, greetVars, pureVars, gtfs, sptrans,
                   rotina, gemReq>>

\* openEditModal(link): the switch shows the link's is_active
OpenEditModal(l) ==
    /\ ~modal.open
    /\ links[l].present
    /\ modal' = [open |-> TRUE, isEditMode |-> TRUE, editingLink |-> l,
                 isActive |-> links[l].is_active]
    /\ UNCHANGED <<links, clientVars, serverVars, greetVars, pureVars, gtfs, sptrans,
                   rotina, gemReq>>

\* the user moves the "active" switch of the dialog
SetIsActive(b) ==
    /\ modal.open
    /\ modal' = [modal EXCEPT !.isActive = b]
    /\ UNCHANGED <<links, clientVars, serverVars, greetVars, pureVars, gtfs, sptrans,
                   rotina, gemReq>>

\* handleSaveLink: the edited link takes the switch's value, or a new link is
\* made with it and is_blocked false; the dialog closes when the save succeeds
HandleSaveLink(ok) ==
    /\ modal.open
    /\ IF modal.isEditMode /\ modal.editingLink # 0
       THEN links' = saveLinks([links EXCEPT ![modal.editingLink].is_active =
                                                 modal.isActive], ok)
       ELSE \E l \in LinkIds :
               /\ ~links[l].present
               /\ links' = saveLinks([links EXCEPT ![l] =
                                        [present |-> TRUE, is_active |-> modal.isActive,
                                         is_blocked |-> FALSE]], ok)
    /\ modal' = IF ok THEN NoModal ELSE modal
    /\ UNCHANGED <<clientVars, serverVars, greetVars, pureVars, gtfs, sptrans, rotina,
                   gemReq>>

\* the dialog is dismissed
CloseModal ==
    /\ modal.open
    /\ modal' = NoModal
    /\ UNCHANGED <<links, clientVars, serverVars, greetVars, pureVars, gtfs, sptrans,
                   rotina, gemReq>>

\* toggleLinkStatus(linkId); its button is disabled while the link is blocked
ToggleLinkStatus(l, ok) ==
    /\ ~modal.open
    /\ links[l].present /\ ~links[l].is_blocked
    /\ links' = saveLinks([links EXCEPT ![l].is_active = ~@], ok)
    /\ UNCHANGED <<modal, clientVars, serverVars, greetVars, pureVars, gtfs, sptrans,
                   rotina, gemReq>>

\* toggleBlockStatus(linkId): blocking deactivates, unblocking leaves is_active
ToggleBlockStatus(l, ok) ==
    /\ ~modal.open
    /\ links[l].present
    /\ links' = saveLinks([links EXCEPT ![l] =
                             [@ EXCEPT !.is_blocked = ~links[l].is_blocked,
                                       !.is_active = IF links[l].is_blocked
                                                     THEN links[l].is_active
                                                     ELSE FALSE]], ok)
    /\ UNCHANGED <<modal, clientVars, serverVars, greetVars, pureVars, gtfs, sptrans,
                   rotina, gemReq>>

\* deleteLink(linkId)
DeleteLink(l, ok) ==
    /\ ~modal.open
    /\ links[l].present
    /\ links' = saveLinks([links EXCEPT ![l] = NoLink], ok)
    /\ UNCHANGED <<modal, clientVars, serverVars, greetVars, pureVars, gtfs, sptrans,
                   rotina, gemReq>>

\* ------------------------------------------------------------ specification

ServerQuiet ==
    /\ currentKeyIndex = 0
    /\ poolSize = 0
    /\ req = <<>>

\* no greeting hook is mounted
GreetQuiet ==
    /\ hook = <<>>
    /\ tabGreeted = {}
    /\ dayGreeted = FALSE
    /\ spokenCount = <<>>
    /\ timer = {}

\* no text function is under study
PureQuiet ==
    /\ arg = <<>>
    /\ res = <<>>

\* the transit pages, the SPTrans and Gemini handlers and the affiliate admin
\* page are not in use
AppQuiet ==
    /\ gtfs = <<>>
    /\ sptrans = <<>>
    /\ rotina = <<>>
    /\ links = <<>>
    /\ modal = <<>>
    /\ gemReq = <<>>

Init ==
    /\ AppQuiet
    /\ call = [c \in CallIds |-> Idle]
    /\ currentAudio = NoCall
    /\ utterance = NoCall
    /\ audioCache = {}
    /\ store = [k \in PhraseKeys |-> "none"]
    /\ voiceEnabled \in BOOLEAN
    /\ speechSupported \in BOOLEAN
    /\ ServerQuiet
    /\ GreetQuiet
    /\ PureQuiet

\* ttsService and cachedAudioService read neither setting of the voice
InitTts ==
    /\ AppQuiet
    /\ Init
    /\ voiceEnabled
    /\ speechSupported

\* the texts that fall outside the phrase catalog
OtherTexts == {t \in UtteranceIds : findCachedPhraseKey(Utterances[t]) = NoKey}

\* ttsService.speak on the texts of T, run by the calls of S
SpeakNext(S, T) ==
    \/ \E c \in S, t \in T : SpeakStart(c, t)
    \/ \E c \in S, o \in Outcomes : SpeakAfterMemoryPlay(c, o)
    \/ \E c \in S, resp \in Responses : SpeakAfterElevenLabs(c, resp)
    \/ \E c \in S, o \in Outcomes : SpeakAfterElevenLabsPlay(c, o)
    \/ \E c \in S, resp \in Responses : SpeakAfterGemini(c, resp)
    \/ \E c \in S, o \in Outcomes : SpeakAfterGeminiPlay(c, o)
    \/ ClearCache

\* cachedAudioService, run by the calls of S
PhraseNext(S) ==
    \/ \E c \in S, k \in PhraseKeys : PcpStart(c, k)
    \/ \E c \in S : PcpAfterGet(c)
    \/ \E c \in S, resp \in Responses : PcpAfterGenerate(c, resp)
    \/ \E c \in S : PcpAfterSet(c)
    \/ \E c \in S, o \in Outcomes : PcpAfterPlay(c, o)
    \/ \E c \in S : PreloadStart(c)
    \/ \E c \in S : PreloadAfterGet(c)
    \/ \E c \in S, resp \in Responses : PreloadAfterGenerate(c, resp)
    \/ \E c \in S : PreloadAfterSet(c)
    \/ \E c \in S : PreloadAfterSleep(c)
    \/ ClearAudioCache

\* elevenlabsTtsService and isaVoiceService, run by the calls of S
IsaNext(S) ==
    \/ \E c \in S, t \in UtteranceIds : SweStart(c, t)
    \/ \E c \in S, t \in UtteranceIds, p \in Pages, f \in BOOLEAN : IsaStart(c, t, p, f)
    \/ \E c \in S, resp \in Responses : SweAfterFetch(c, resp)
    \/ \E c \in S, o \in Outcomes : SweAfterPlay(c, o)
    \/ \E c \in S, resp \in Responses : SweAfterGemini(c, resp)
    \/ \E c \in S, o \in Outcomes : SweAfterGeminiPlay(c, o)
    \/ \E c \in S : NativeDone(c)

\* the calls of isaSpeak that the greeting flows have started, as they go on
IsaRun(S) ==
    \/ \E c \in S, resp \in GreetResponses : SweAfterFetch(c, resp)
    \/ \E c \in S, o \in Outcomes : SweAfterPlay(c, o)
    \/ \E c \in S, resp \in GreetResponses : SweAfterGemini(c, resp)
    \/ \E c \in S, o \in Outcomes : SweAfterGeminiPlay(c, o)
    \/ \E c \in S : NativeDone(c)

\* the greeting hook on its page, and the voice switch of the page
GreetNext ==
    \/ \E h \in HookIds, p \in GreetTabs, e \in BOOLEAN : Mount(h, p, e)
    \/ \E h \in HookIds : Unmount(h)
    \/ \E h \in HookIds : SpeakGreeting(h)
    \/ \E h \in HookIds : GreetAfterFirst(h)
    \/ \E h \in HookIds, load \in Loads : GreetAfterLoad(h, load)
    \/ \E h \in HookIds : GreetAfterPage(h)
    \/ \E b \in BOOLEAN : SetVoiceEnabled(b)

\* what the page does around the calls of S
PageNext(S) ==
    \/ StopSpeaking
    \/ \E c \in S : Return(c)

\* every entry point of the voice pipeline, one call after the other
Next ==
    \/ SpeakNext({1}, UtteranceIds)
    \/ PhraseNext({1})
    \/ IsaNext({1})
    \/ PageNext({1})

Spec == Init /\ [][Next]_vars

\* concurrent calls of ttsService.speak
SpecRace == InitTts /\ [][SpeakNext(CallIds, OtherTexts) \/ PageNext(CallIds)]_vars

\* concurrent calls of cachedAudioService, next to a call of ttsService.speak
SpecStore ==
    InitTts /\ [][SpeakNext({1}, UtteranceIds) \/ PhraseNext(CallIds) \/ PageNext(CallIds)]_vars

\* the text-to-speech edge function: a fresh instance with its pool of keys
InitKeys ==
    /\ AppQuiet
    /\ call = [c \in CallIds |-> Idle]
    /\ currentAudio = NoCall
    /\ utterance = NoCall
    /\ audioCache = {}
    /\ store = [k \in PhraseKeys |-> "none"]
    /\ voiceEnabled = TRUE
    /\ speechSupported = TRUE
    /\ currentKeyIndex = 0
    /\ poolSize \in 0..MaxKeys
    /\ req = [r \in ReqIds |-> NoReq]
    /\ GreetQuiet
    /\ PureQuiet

KeysNext ==
    \/ \E r \in ReqIds, b \in BodyIds : Serve(r, b)
    \/ \E r \in ReqIds, up \in Upstream : AfterAttempt(r, up)
    \/ \E r \in ReqIds : Sent(r)

SpecKeys == InitKeys /\ [][KeysNext]_vars

\* concurrent calls of speakWithElevenLabs and isaSpeak
SpecIsa == Init /\ [][IsaNext(CallIds) \/ PageNext(CallIds)]_vars

\* the greeting flows of the hook instances, each with its own call of isaSpeak
InitGreet ==
    /\ AppQuiet
    /\ call = [c \in CallIds |-> Idle]
    /\ currentAudio = NoCall
    /\ utterance = NoCall
    /\ audioCache = {}
    /\ store = [k \in PhraseKeys |-> "none"]
    /\ voiceEnabled = TRUE
    /\ speechSupported = TRUE
    /\ ServerQuiet
    /\ hook = [h \in HookIds |-> NoHook]
    /\ tabGreeted = {}
    /\ dayGreeted = FALSE
    /\ spokenCount = NoneSpoken
    /\ timer = {}
    /\ PureQuiet

\* the cleaning functions on every text of Texts
InitClean ==
    /\ AppQuiet
    /\ call = [c \in CallIds |-> Idle]
    /\ currentAudio = NoCall
    /\ utterance = NoCall
    /\ audioCache = {}
    /\ store = [k \in PhraseKeys |-> "none"]
    /\ voiceEnabled = TRUE
    /\ speechSupported = TRUE
    /\ ServerQuiet
    /\ GreetQuiet
    /\ arg \in Texts
    /\ res = <<>>

CleanNext ==
    \/ \E f \in {"client", "server"} : CleanOnce(f)
    \/ CleanAgain

SpecClean == InitClean /\ [][CleanNext]_vars

\* currencyToSpeech on every amount of Amounts
InitCurrency ==
    /\ AppQuiet
    /\ call = [c \in CallIds |-> Idle]
    /\ currentAudio = NoCall
    /\ utterance = NoCall
    /\ audioCache = {}
    /\ store = [k \in PhraseKeys |-> "none"]
    /\ voiceEnabled = TRUE
    /\ speechSupported = TRUE
    /\ ServerQuiet
    /\ GreetQuiet
    /\ arg \in Amounts
    /\ res = <<>>

SpecCurrency == InitCurrency /\ [][CurrencyToSpeech]_vars

SpecGreet == InitGreet /\ [][GreetNext \/ IsaRun(HookIds)]_vars

\* the greeting hook on pages whose userId and enabled props stay as they are:
\* speakGreeting runs when the timer of a mount fires and at no other time
DeferEnv ==
    \/ \E h \in HookIds, p \in GreetTabs : Mount(h, p, TRUE)
    \/ \E h \in HookIds : Unmount(h)
    \/ \E b \in BOOLEAN : SetVoiceEnabled(b)

\* what the program does for hook instance h once the page has mounted it: the
\* timer, the flow, and the isaSpeak call of the flow
DeferRun(h) ==
    \/ TimerFires(h)
    \/ GreetAfterFirst(h)
    \/ \E load \in Loads : GreetAfterLoad(h, load)
    \/ GreetAfterPage(h)
    \/ IsaRun({h})

\* timers fire, loads and fetches are answered, playbacks end; the user need
\* not do anything
SpecDefer ==
    /\ InitGreet
    /\ [][DeferEnv \/ \E h \in HookIds : DeferRun(h)]_vars
    /\ \A h \in HookIds : WF_vars(DeferRun(h))

\* the Gemini handlers on every body of GemBodies, with and without the key
InitGemini ==
    /\ call = [c \in CallIds |-> Idle]
    /\ currentAudio = NoCall
    /\ utterance = NoCall
    /\ audioCache = {}
    /\ store = [k \in PhraseKeys |-> "none"]
    /\ voiceEnabled = TRUE
    /\ speechSupported = TRUE
    /\ ServerQuiet
    /\ GreetQuiet
    /\ PureQuiet
    /\ gtfs = <<>>
    /\ sptrans = <<>>
    /\ rotina = <<>>
    /\ links = <<>>
    /\ modal = <<>>
    /\ gemReq \in {[endpoint |-> e, body |-> b, key |-> k, pc |-> "received",
                    status |-> 0, upstream |-> FALSE, sent |-> <<>>] :
                      e \in GemEndpoints, b \in GemBodies, k \in BOOLEAN}

SpecGemini ==
    InitGemini /\ [][GeminiServe \/ \E resp \in GemUpstream : GeminiAfterFetch(resp)]_vars

\* a page that has loaded the module and calls into gtfsService
InitGtfs ==
    /\ call = [c \in CallIds |-> Idle]
    /\ currentAudio = NoCall
    /\ utterance = NoCall
    /\ audioCache = {}
    /\ store = [k \in PhraseKeys |-> "none"]
    /\ voiceEnabled = TRUE
    /\ speechSupported = TRUE
    /\ ServerQuiet
    /\ GreetQuiet
    /\ PureQuiet
    /\ gtfs = NoGtfs
    /\ sptrans = <<>>
    /\ rotina = <<>>
    /\ links = <<>>
    /\ modal = <<>>
    /\ gemReq = <<>>

GtfsNext ==
    \/ \E k \in CallerIds : LoadGTFSData(k)
    \/ \E ok \in BOOLEAN : LoadAfterFetch(ok)
    \/ \E ok \in BOOLEAN : LoadAfterParse(ok)
    \/ \E k \in CallerIds : CallerResume(k)
    \/ \E k \in CallerIds : CallerDone(k)

SpecGtfs == InitGtfs /\ [][GtfsNext]_vars

\* a fresh instance of the SPTrans function
InitSptrans ==
    /\ call = [c \in CallIds |-> Idle]
    /\ currentAudio = NoCall
    /\ utterance = NoCall
    /\ audioCache = {}
    /\ store = [k \in PhraseKeys |-> "none"]
    /\ voiceEnabled = TRUE
    /\ speechSupported = TRUE
    /\ ServerQuiet
    /\ GreetQuiet
    /\ PureQuiet
    /\ gtfs = <<>>
    /\ sptrans \in {NoSptrans(token) : token \in BOOLEAN}
    /\ rotina = <<>>
    /\ links = <<>>
    /\ modal = <<>>
    /\ gemReq = <<>>

SptNext ==
    \/ \E i \in InvIds, a \in SptActions : SptServe(i, a)
    \/ \E i \in InvIds, answer \in LoginAnswers, c \in BOOLEAN : SptAfterLogin(i, answer, c)
    \/ \E i \in InvIds, answer \in DataAnswers : SptAfterData(i, answer)
    \/ \E i \in InvIds : SptDone(i)

SpecSptrans == InitSptrans /\ [][SptNext]_vars

\* the RotinaInteligente page with its routine loaded
InitRotina ==
    /\ call = [c \in CallIds |-> Idle]
    /\ currentAudio = NoCall
    /\ utterance = NoCall
    /\ audioCache = {}
    /\ store = [k \in PhraseKeys |-> "none"]
    /\ voiceEnabled = TRUE
    /\ speechSupported = TRUE
    /\ ServerQuiet
    /\ GreetQuiet
    /\ PureQuiet
    /\ gtfs = <<>>
    /\ sptrans = <<>>
    /\ rotina = NoRotina
    /\ links = <<>>
    /\ modal = <<>>
    /\ gemReq = <<>>

RotinaNext ==
    \/ \E m \in BusMinutes : AutoRefresh(m)
    \/ \E m \in BusMinutes : ManualRefresh(m)
    \/ \E m \in BusMinutes : SelectStop(m)

SpecRotina == InitRotina /\ [][RotinaNext]_vars

\* the affiliate admin page with no link stored yet
InitLinks ==
    /\ call = [c \in CallIds |-> Idle]
    /\ currentAudio = NoCall
    /\ utterance = NoCall
    /\ audioCache = {}
    /\ store = [k \in PhraseKeys |-> "none"]
    /\ voiceEnabled = TRUE
    /\ speechSupported = TRUE
    /\ ServerQuiet
    /\ GreetQuiet
    /\ PureQuiet
    /\ gtfs = <<>>
    /\ sptrans = <<>>
    /\ rotina = <<>>
    /\ links = [l \in LinkIds |-> NoLink]
    /\ modal = NoModal
    /\ gemReq = <<>>

LinksNext ==
    \/ OpenCreateModal
    \/ \E l \in LinkIds : OpenEditModal(l)
    \/ \E b \in BOOLEAN : SetIsActive(b)
    \/ \E ok \in BOOLEAN : HandleSaveLink(ok)
    \/ CloseModal
    \/ \E l \in LinkIds, ok \in BOOLEAN : ToggleLinkStatus(l, ok)
    \/ \E l \in LinkIds, ok \in BOOLEAN : ToggleBlockStatus(l, ok)
    \/ \E l \in LinkIds, ok \in BOOLEAN : DeleteLink(l, ok)

SpecLinks == InitLinks /\ [][LinksNext]_vars

\* ------------------------------------------------------------ properties

\* call c's Audio element is the active one and carries sound
Audible(c) == currentAudio = c /\ call[c].handle = "audio"

\* what a provider adapter has done in the call of record r: a provider has
\* failed when it returned no audio or the playback of its audio rejected, and
\* has succeeded when its audio played to the end or until it was stopped
NoAudio == {"noContent", "httpError", "netError"}

ElInvoked(r) == r.elResp # "none"

ElFailed(r) == r.elResp \in NoAudio \/ r.elPlay = "error"

ElSucceeded(r) == r.elResp = "audio" /\ r.elPlay \in {"ended", "stopped"}

GemInvoked(r) == r.gemResp # "none"

GemFailed(r) == r.gemResp \in NoAudio \/ r.gemPlay = "error"

GemSucceeded(r) == r.gemResp = "audio" /\ r.gemPlay \in {"ended", "stopped"}

\* C1: at most one audio or speech output is playing at any instant, the
\* native speech path and late synthesis replies included: no Audio element
\* carries sound while an utterance is being spoken.
C1_OneOutputAtATime ==
    ~(\E c \in CallIds : Audible(c) /\ utterance # NoCall)

\* C2: the audio of a speak request that was waiting for its synthesis fetch
\* when a later speak request began is never started.
C2_PreemptedRequestStaysSilent ==
    \A c \in CallIds : call[c].stale => ~Audible(c)

\* the keys start, start+1, ... in round-robin order, n of them
RoundRobin(start, n) == [i \in 1..n |-> (start + i - 1) % poolSize]

\* C3: a request whose upstream attempts all answer 401 or 429, and between
\* whose attempts no other request takes a key, tries the keys in round-robin
\* order from the cursor it found, each of the N keys once, and replies with
\* its failure (204) only after the N-th attempt.
C3_PoolExhaustedOnce ==
    \A r \in ReqIds :
        LET q == req[r]
        IN  (q.alone /\ q.allQuota /\ q.attempts # <<>>) =>
                /\ Len(q.attempts) <= poolSize
                /\ q.attempts = RoundRobin(q.startIndex, Len(q.attempts))
                /\ q.pc = "fetch" => q.triedKeys = Len(q.attempts) - 1
                /\ q.pc = "replied" =>
                       /\ Len(q.attempts) = poolSize
                       /\ q.response = "null"
                       /\ {q.attempts[i] : i \in 1..Len(q.attempts)} = 0..(poolSize - 1)
                       /\ q.status = 204

C3_Witness ==
    \E r \in ReqIds :
        /\ req[r].pc = "replied"
        /\ req[r].alone
        /\ req[r].allQuota
        /\ poolSize >= 3
        /\ Len(req[r].attempts) = poolSize
        /\ req[r].startIndex = 1
        /\ req[r].status = 204

\* C4: within one call of speak or speakWithElevenLabs the providers come in
\* the order ElevenLabs, Gemini, native: Gemini is invoked only after
\* ElevenLabs has failed, the native engine only after Gemini has failed, and
\* nothing is invoked after a provider has succeeded.
C4_PriorityOrder ==
    \A c \in CallIds :
        LET r == call[c]
        IN  /\ GemInvoked(r) => ElInvoked(r) /\ ElFailed(r)
            /\ r.natInv => GemInvoked(r) /\ GemFailed(r)
            /\ ElSucceeded(r) => ~GemInvoked(r) /\ ~r.natInv
            /\ GemSucceeded(r) => ~r.natInv

C4_Witness ==
    \E c \in CallIds :
        /\ call[c].op = "swe"
        /\ call[c].pc = "swe_native"
        /\ call[c].elResp = "httpError"
        /\ call[c].gemPlay = "error"
        /\ utterance = c

\* C5 as amended: in speakWithElevenLabs, called directly or by isaSpeak, the
\* native engine is invoked as soon as Gemini has failed; ttsService.speak
\* never invokes the native engine and resolves when both providers failed.
C5_NativeAfterExhaustion ==
    \A c \in CallIds :
        LET r == call[c]
        IN  /\ (r.op \in {"swe", "isa"} /\ GemFailed(r)) => r.natInv
            /\ r.op = "speak" => ~r.natInv /\ ~r.isaNat /\ utterance # c
            /\ (r.op = "speak" /\ GemFailed(r)) => r.pc = "done" /\ r.result = "resolved"

C5_Witness ==
    \E c \in CallIds :
        /\ call[c].op = "isa"
        /\ call[c].pc = "done"
        /\ call[c].elResp = "netError"
        /\ call[c].gemResp = "httpError"
        /\ call[c].natInv
        /\ ~call[c].isaNat

\* C5: once the primary and the secondary provider have both failed in a call
\* the native engine has been invoked, whichever the entry point.
C5_NativeOnEveryEntryPoint ==
    \A c \in CallIds :
        LET r == call[c]
        IN  (r.pc = "done" /\ ElFailed(r) /\ GemFailed(r)) => (r.natInv \/ r.isaNat)

\* C6: the promise returned by ttsService.speak and by isaSpeak never rejects.
C6_NeverRejects ==
    \A c \in CallIds : call[c].op \in {"speak", "isa"} => call[c].result # "rejected"

\* C7: a call of speak or speakWithElevenLabs whose primary fetch came back
\* 204 No Content has gone on to Gemini and settles without an error.
C7_NoContentFallsToGemini ==
    \A c \in CallIds :
        LET r == call[c]
        IN  (r.op \in {"speak", "swe"} /\ r.elResp = "noContent" /\ r.pc = "done") =>
                GemInvoked(r) /\ r.result = "resolved"

C9_SecondSpeakOffline ==
    \A c \in CallIds : (call[c].op = "speak" /\ call[c].cachedAtStart) => ~call[c].net

\* the normalized text equals the normalized text of a catalog phrase
NormalizesToCatalog(text) ==
    \E k \in PhraseKeys : normalizeTextForCache(text) = normalizeTextForCache(COMMON_PHRASES[k])

\* C10 as amended: a speak call on a text that normalizes to a catalog phrase
\* takes the cached-phrase path first, and a provider adapter is invoked in
\* that call only after playCachedPhrase has returned false.
C10_AdaptersOnlyAfterPhraseFailure ==
    \A c \in CallIds :
        LET r == call[c]
        IN  (r.op = "speak" /\ NormalizesToCatalog(textOf(r))) =>
                /\ r.key # NoKey
                /\ r.pc \in {"pcp_get", "pcp_fetch", "pcp_set", "pcp_play"} \/ r.pcpRes # "none"
                /\ (ElInvoked(r) \/ GemInvoked(r) \/ r.pc = "sp_mem_play") => r.pcpRes = "false"
                /\ r.pcpRes = "true" => ~ElInvoked(r) /\ ~GemInvoked(r) /\ r.pc = "done"

C10_Witness ==
    \E c \in CallIds :
        /\ call[c].op = "speak"
        /\ textOf(call[c]) = <<" ", "B", "O", "M", " ", "D", "I", "A'", "!">>
        /\ call[c].pcpRes = "true"
        /\ call[c].pc = "done"

\* C10: in a speak call on a text that normalizes to a catalog phrase no
\* provider adapter is ever invoked.
C10_CatalogNeverReachesAdapters ==
    \A c \in CallIds :
        LET r == call[c]
        IN  (r.op = "speak" /\ NormalizesToCatalog(textOf(r))) =>
                ~ElInvoked(r) /\ ~GemInvoked(r)


\* ---- the greeting flow

\* hook instance h runs a greeting flow: it is past the guards of speakGreeting
\* and loads data or waits for a call of isaSpeak
InFlow(h) == hook[h].pc # "idle"

\* C11: however the greeting flow of a tab is invoked while the voice stays
\* enabled, re-mounts with a fresh hook instance and invocations during an
\* earlier flow included, the page greeting of the tab is handed to isaSpeak
\* at most once.
C11_PageGreetingOnce ==
    \A p \in GreetTabs : spokenCount.tab[p] <= 1

\* C12: the first-access-of-day greeting is handed to isaSpeak at most once on
\* a day, also when flows overlap before either has recorded the day.
C12_DailyGreetingOnce ==
    spokenCount.day <= 1

\* C13: while a greeting flow of a tab is in progress, no second flow of the
\* same tab gets past the guards: no other instance loads data or speaks for it.
C13_OneFlowPerTab ==
    \A h, g \in HookIds :
        h # g /\ InFlow(h) /\ InFlow(g) => hook[h].page # hook[g].page


\* C14: a call of speakGreeting made while another playback is active leaves
\* that playback and every call as they are, starts no speech and no flow, and
\* changes neither the tab flags, nor the day flag, nor the processing guard.
C14_BusyVoiceLeavesAllAlone ==
    [][\A h \in HookIds :
          isVoicePlaying /\ SpeakGreeting(h)
            => /\ UNCHANGED <<call, currentAudio, utterance>>
               /\ UNCHANGED <<tabGreeted, dayGreeted, spokenCount>>
               /\ hook'[h].isProcessing = hook[h].isProcessing
               /\ hook'[h].pc = hook[h].pc]_vars

\* speakGreeting has returned at its isVoicePlaying guard and the playback it
\* met still runs
C14_Witness ==
    \E h \in HookIds :
        /\ hook[h].last = "playing"
        /\ ~hook[h].isProcessing
        /\ \E c \in CallIds : c # h /\ Audible(c)


\* C15: setVoiceEnabled(true) leaves no tab recorded as greeted, and a call of
\* speakGreeting made while no tab is recorded, with the voice enabled, nothing
\* playing and no flow of the instance in progress, starts a greeting flow:
\* also in the instance of the mounted tab that has been greeted before.
C15_ReenabledVoiceGreetsAgain ==
    [][/\ SetVoiceEnabled(TRUE) => tabGreeted' = {}
       /\ \A h \in HookIds :
            /\ SpeakGreeting(h)
            /\ voiceEnabled /\ hook[h].enabled
            /\ tabGreeted = {}
            /\ ~isVoicePlaying /\ ~hook[h].isProcessing
            => InFlow(h)']_vars


\* ---- the rotation cursor

\* request r makes a key attempt in this step
Attempts(r) == Len(req'[r].attempts) = Len(req[r].attempts) + 1

\* the upstream fetch of request r is answered with audio in this step
Succeeds(r) == req[r].pc = "fetch" /\ req'[r].pc = "replied" /\ req'[r].status = 200

\* C16: with N >= 1 keys configured the cursor is always an index of the pool;
\* every key attempt uses the key under the cursor and advances the cursor by
\* one modulo N, whatever the attempt is answered with later; nothing else
\* moves the cursor, so a request that succeeds with key i, no other request
\* having taken a key meanwhile, leaves the cursor at (i + 1) mod N.
C16_CursorRotates ==
    /\ [](poolSize > 0 => currentKeyIndex \in 0..(poolSize - 1))
    /\ [][/\ \A r \in ReqIds :
               Attempts(r) =>
                   /\ req'[r].attempts[Len(req'[r].attempts)] = currentKeyIndex
                   /\ currentKeyIndex' = (currentKeyIndex + 1) % poolSize
          /\ (\A r \in ReqIds : ~Attempts(r)) => currentKeyIndex' = currentKeyIndex
          /\ \A r \in ReqIds :
               Succeeds(r) /\ req[r].alone =>
                   currentKeyIndex' =
                       (req[r].attempts[Len(req[r].attempts)] + 1) % poolSize]_vars

\* a request has succeeded with the last key of a full pool, after a failed
\* attempt, and the cursor has wrapped to the first key
C16_Witness ==
    \E r \in ReqIds :
        /\ req[r].pc = "replied" /\ req[r].status = 200 /\ req[r].alone
        /\ poolSize = MaxKeys
        /\ Len(req[r].attempts) >= 2
        /\ req[r].attempts[Len(req[r].attempts)] = poolSize - 1
        /\ currentKeyIndex = 0


\* ---- the phrase store

\* the setCachedAudio that call c awaits completes in this step
PutDone(c) == call[c].pc \in {"pcp_set", "pre_set"} /\ call'[c].pc # call[c].pc

C18_CleaningIdempotent ==
    (res # <<>> /\ res.again) => res.out = arg


\* ---- nothing to speak

\* the text of the call of record r is empty, or cleaning leaves nothing of it
NothingToSpeak(r) == textOf(r) = <<>> \/ cleanTextForTts(textOf(r)) = <<>>

\* the call of record r has returned normally without any synthesis request
\* and without any provider
ReturnedSilent(r) ==
    /\ r.pc = "done" /\ r.result = "resolved"
    /\ ~r.net
    /\ r.elResp = "none" /\ r.gemResp = "none"
    /\ ~r.natInv

\* C19: a call of speak or of speakWithElevenLabs whose text is empty, or
\* empty once cleaned, returns normally at once: no synthesis request is
\* issued and no provider is invoked for it.
C19_NothingToSpeakIsSilent ==
    \A c \in CallIds :
        (call[c].op \in {"speak", "swe"} /\ NothingToSpeak(call[c]))
            => ReturnedSilent(call[c])


\* ---- currencyToSpeech

\* what a word of numberToWords counts for
WordValue(w) ==
    CASE w = "um" -> 1 [] w = "dois" -> 2 [] w = "três" -> 3 [] w = "quatro" -> 4
      [] w = "cinco" -> 5 [] w = "seis" -> 6 [] w = "sete" -> 7 [] w = "oito" -> 8
      [] w = "nove" -> 9 [] w = "dez" -> 10 [] w = "onze" -> 11 [] w = "doze" -> 12
      [] w = "treze" -> 13 [] w = "quatorze" -> 14 [] w = "quinze" -> 15
      [] w = "dezesseis" -> 16 [] w = "dezessete" -> 17 [] w = "dezoito" -> 18
      [] w = "dezenove" -> 19 [] w = "vinte" -> 20 [] w = "trinta" -> 30
      [] w = "quarenta" -> 40 [] w = "cinquenta" -> 50 [] w = "sessenta" -> 60
      [] w = "setenta" -> 70 [] w = "oitenta" -> 80 [] w = "noventa" -> 90
      [] w = "cem" -> 100 [] w = "cento" -> 100 [] w = "duzentos" -> 200
      [] w = "trezentos" -> 300 [] w = "quatrocentos" -> 400
      [] w = "quinhentos" -> 500 [] w = "seiscentos" -> 600
      [] w = "setecentos" -> 700 [] w = "oitocentos" -> 800
      [] w = "novecentos" -> 900
      [] OTHER -> 0

\* the number that the words ws name in Portuguese: total is the part closed
\* by "milhão"/"milhões" or "mil", group the part that is still open
RECURSIVE Named(_, _, _)
Named(ws, total, group) ==
    IF ws = <<>> THEN total + group
    ELSE LET w == Head(ws)
         IN  IF w \in {"milhão", "milhões"}
             THEN Named(Tail(ws), total + group * 1000000, 0)
             ELSE IF w = "mil"
             THEN Named(Tail(ws), total + (IF group = 0 THEN 1 ELSE group) * 1000, 0)
             ELSE Named(Tail(ws), total, group + WordValue(w))

\* where the unit word "reál"/"reáis" stands in ws, 0 where it does not occur
UnitAt(ws) ==
    IF \E i \in 1..Len(ws) : ws[i] \in {"reál", "reáis"}
    THEN CHOOSE i \in 1..Len(ws) : ws[i] \in {"reál", "reáis"}
    ELSE 0

\* C20: for an amount of whole cents, with integer part i and c cents, the
\* words of currencyToSpeech are: when i > 0, words that name i and then the
\* unit word, 'reál' exactly when i = 1; when c > 0, (after ' e ' when i > 0)
\* words that name c and then the subunit word, 'centavo' exactly when c = 1;
\* nothing else, so no unit word when i = 0 and c > 0.  10.50 is 'dez reáis e
\* cinquenta centavos' and 0.99 is 'noventa e nove centavos'.
C20_CurrencyInWords ==
    (res # <<>> /\ arg > 0) =>
        LET i    == arg \div 100
            c    == arg % 100
            n    == Len(res)
            u    == UnitAt(res)
            from == IF u = 0 THEN 1 ELSE u + 4
        IN  /\ (i > 0) <=> (u > 0)
            /\ i > 0 =>
                 /\ res[u] = (IF i = 1 THEN "reál" ELSE "reáis")
                 /\ res[u - 1] = " "
                 /\ Named(SubSeq(res, 1, u - 2), 0, 0) = i
            /\ (c > 0) <=> res[n] \in {"centavo", "centavos"}
            /\ c = 0 => n = u
            /\ c > 0 =>
                 /\ res[n] = (IF c = 1 THEN "centavo" ELSE "centavos")
                 /\ res[n - 1] = " "
                 /\ i > 0 => SubSeq(res, u + 1, u + 3) = <<" ", "e", " ">>
                 /\ Named(SubSeq(res, from, n - 2), 0, 0) = c
                 /\ \A j \in from..n : res[j] \notin {"reál", "reáis"}
            /\ arg = 1050 =>
                 res = <<"dez", " ", "reáis", " ", "e", " ", "cinquenta", " ", "centavos">>
            /\ arg = 99 =>
                 res = <<"noventa", " ", "e", " ", "nove", " ", "centavos">>

\* 10.50 has been spoken as ten units and fifty subunits
C20_Witness ==
    /\ arg = 1050
    /\ res = <<"dez", " ", "reáis", " ", "e", " ", "cinquenta", " ", "centavos">>


\* ---- the key loop under concurrent requests

\* C26: a request tries no key twice and makes at most N attempts, also when
\* other requests take keys between its attempts.
C26_NoKeyTwice ==
    \A r \in ReqIds :
        LET a == req[r].attempts
        IN  /\ Len(a) <= poolSize
            /\ \A i, j \in 1..Len(a) : i # j => a[i] # a[j]


\* ---- what the persistent phrase cache holds

\* C27: every blob in the persistent phrase cache is non-empty audio; a reply
\* that carries no audio (a 204) is never written by playCachedPhrase or by
\* preloadCommonPhrases.
C27_StoreHoldsAudioOnly ==
    \A k \in PhraseKeys : store[k] \in {"none", "audio"}


\* ---- the object URLs of the memory cache

\* the onended / onerror handler of the element that tryElevenLabsTTS or
\* tryGeminiTTS made for call c runs in this step: URL.revokeObjectURL(audioUrl)
Revokes(c) ==
    \/ /\ call[c].pc = "sp_el_play"
       /\ call'[c].pc # "sp_el_play"
       /\ call'[c].elPlay \in {"ended", "error"}
    \/ /\ call[c].pc = "sp_gem_play"
       /\ call'[c].pc # "sp_gem_play"
       /\ call'[c].gemPlay \in {"ended", "error"}

\* C28: a URL that is in the memory cache is never revoked: when the element
\* of a call ends or errors, the URL that speak cached for it is out of the
\* cache.
C28_CachedUrlNeverRevoked ==
    [][\A c \in CallIds :
          Revokes(c) => cacheKeyOf(textOf(call[c])) \notin audioCache']_vars


\* ---- what a tab's mark stands for

\* the call of record r has put sound out: a provider's audio played, or the
\* native engine spoke its utterance
WasOutput(r) ==
    \/ ElSucceeded(r)
    \/ GemSucceeded(r)
    \/ (r.natInv \/ r.isaNat) /\ speechSupported

\* C29: a tab is recorded as greeted only if a greeting for it was put out:
\* the isaSpeak call of the flow that marks the tab has played audio or spoken.
C29_MarkedOnlyIfSpoken ==
    [][\A p \in GreetTabs :
          (p \in tabGreeted' /\ p \notin tabGreeted)
              => \E h \in HookIds : hook[h].page = p /\ WasOutput(call[h])]_vars


\* ---- a deferred greeting

\* the call of speakGreeting that the timer of instance h made has returned at
\* the isVoicePlaying guard, and the instance is still mounted
Deferred(h) == hook[h].mounted /\ hook[h].last = "playing"

\* C23: a greeting deferred because another voice was playing is spoken in the
\* end: while the page stays mounted with the voice enabled and its tab is not
\* greeted by another flow, the instance comes to start its greeting flow.
C23_DeferredGreetingIsSpoken ==
    \A h \in HookIds :
        Deferred(h) ~> \/ InFlow(h)
                       \/ ~hook[h].mounted
                       \/ ~voiceEnabled
                       \/ hook[h].page \in tabGreeted


\* ---- the input check of the TTS endpoints

\* the text field of the body is missing, empty or blank
NoText(body) ==
    \/ body.kind = "missing"
    \/ body.kind = "string" /\ Trim(body.text) = <<>>

\* C21: a POST whose text is missing, empty or blank is answered with 400 and
\* no provider request is made for it, whether or not the key is configured.
C21_BlankTextIs400 ==
    NoText(gemReq.body) =>
        /\ ~gemReq.upstream
        /\ gemReq.pc = "replied" => gemReq.status = 400


\* ---- the transit archive is loaded once

\* C22: the archive is fetched and parsed at most once per process; a caller
\* that arrives while the load is in flight is handed that load and starts no
\* fetch, and a call after a successful load is served the data in memory
\* without a fetch.
C22_ArchiveLoadedOnce ==
    /\ [](gtfs.fetches <= 1 /\ gtfs.parses <= 1)
    /\ [][\A k \in CallerIds :
            LoadGTFSData(k) =>
                /\ gtfs.loadingPromise = "pending"
                       => gtfs'.fetches = gtfs.fetches /\ gtfs'.caller[k] = "waiting"
                /\ gtfs.cachedData
                       => gtfs'.fetches = gtfs.fetches /\ gtfs'.caller[k] = "data"]_vars

\* one fetch has served a caller that joined the load in flight and a caller
\* that did not
C22_Witness ==
    /\ gtfs.fetches = 1
    /\ gtfs.cachedData
    /\ \E k \in gtfs.joined : gtfs.caller[k] = "data"
    /\ \E k \in CallerIds \ gtfs.joined : gtfs.caller[k] = "data"


\* ---- authentication before data

\* the data request of an invocation follows a login of the same invocation
\* that returned true
DataOnlyAfterLogin(r) == (r.dataSent > 0 \/ r.pc = "data") => r.auth = "true"

\* an invocation whose login returned false has sent no data request and is
\* answered 401 with success false
RefusedIs401(r) ==
    r.auth = "false" =>
        /\ r.dataSent = 0
        /\ r.pc = "replied" => r.status = 401 /\ ~r.success

\* C24 as stated: every data request follows a login of the same invocation
\* that returned true, and whenever the login returns false no data request is
\* sent and the reply is 401 with success false.
C24_DataOnlyAfterLogin ==
    \A i \in InvIds :
        DataOnlyAfterLogin(sptrans.inv[i]) /\ RefusedIs401(sptrans.inv[i])

\* C24 amended: the 401 is the reply of the actions that ask for data; the
\* authenticate action reports a false login with status 200 and success false.
C24_DataOnlyAfterLoginAmended ==
    \A i \in InvIds :
        LET r == sptrans.inv[i]
        IN  /\ DataOnlyAfterLogin(r)
            /\ r.action # "authenticate" => RefusedIs401(r)
            /\ (r.action = "authenticate" /\ r.auth = "false" /\ r.pc = "replied")
                   => r.status = 200 /\ ~r.success /\ r.dataSent = 0

\* one invocation is refused with 401 while the data request of another is out
C24_Witness ==
    \E i, j \in InvIds :
        /\ sptrans.inv[i].action = "data" /\ sptrans.inv[i].auth = "false"
        /\ sptrans.inv[i].status = 401
        /\ sptrans.inv[j].pc = "data" /\ sptrans.inv[j].auth = "true"


\* ---- the rate of the arrival alerts

\* C25: over every sequence of auto-refreshes and manual refreshes, at most
\* one voice alert is spoken in any interval of two minutes.
C25_OneAlertPerTwoMinutes ==
    \A i, j \in 1..Len(rotina.alerts) :
        i < j => rotina.alerts[j] - rotina.alerts[i] >= TwoMinutes


\* ---- blocked affiliate links

\* C30: after any sequence of create, edit, toggleLinkStatus, toggleBlockStatus
\* and delete, no stored link is both blocked and active.
C30_BlockedIsInactive ==
    \A l \in LinkIds :
        (links[l].present /\ links[l].is_blocked) => ~links[l].is_active

====
